---- MODULE Spec2Model ----
(***************************************************************************)
(* The friend-request handshake of services/firebaseService.ts (the        *)
(* request-document revision): addFriend, acceptFriendRequest,             *)
(* declineFriendRequest and syncAcceptedFriends, as asynchronous calls     *)
(* whose store reads and writes interleave at every await.                 *)
(*                                                                         *)
(* Then, each under a specification of its own: blocking, the array-field  *)
(* revision of the friend operations, the subscription composers           *)
(* listenToFriends and listenToConversations, the reactions to posts,      *)
(* comments and messages, the comments, the poll and the best answer of a  *)
(* post, and the targeting of campaigns.                                   *)
(***************************************************************************)
EXTENDS Integers, FiniteSets, Sequences, TLC

\* ---------------------------------------------------------------- bounds
\* Calls that may be in flight at the same time.
MaxCalls == 2
\* Notifications an inbox holds before further deposits are refused.
MaxNotifs == 1

\* The users: each has a profile document throughout (no call meets the
\* "!sender || !receiver" return of addFriend).
Users == {"a", "b", "c"}
NoUser == "none"
Procs == 1..MaxCalls

\* Parent pushes one listenToFriends subscription handles.
MaxParentPushes == 3
\* Versions of a friend's profile document.
MaxVersion == 2
\* Handlers of listenToConversations that may be in flight at the same time.
MaxRuns == 2
\* Creation times of messages.
MaxTime == 2
Runs == 1..MaxRuns

PrivacyRules == {"everyone", "friends_of_friends"}

VARIABLES
    friendIds,           \* users/{id}.friendIds
    sentFriendRequests,  \* users/{id}.sentFriendRequests
    privacy,             \* users/{id}.privacySettings.friendRequestPrivacy
    friendRequests,      \* friendRequests/{from}_{to}: "absent", "pending", "accepted"
    inbox,               \* number of documents in users/{id}/notifications
    calls,               \* the calls in flight: position and locals of each
    scenario,            \* observer of the send / accept / reconcile sequence
    blockedUserIds,      \* users/{id}.blockedUserIds
    userDocs,            \* users/{id} of the array-field revision
    batch,               \* observer: the last write of the array-field revision
    friendsListener,     \* listenToFriends: its closure and its subscriptions
    friendsSeen,         \* observer: the pushes handled and the lists emitted
    conversationRuns,    \* listenToConversations: the handlers in flight
    reactions,           \* posts/{id}.reactions
    comments,            \* posts/{id}.comments
    messageReactions,    \* chats/{id}/messages/{id}.reactions
    reacted,             \* observer: the last two reactions
    post,                \* posts/{id}: commentCount, poll, bestAnswerId
    minted,              \* the comment ids generated so far
    transactions,        \* runTransaction: the attempts in flight
    started,             \* the transactions started so far
    lastOp,              \* observer: the last operation on the post
    serial,              \* observer: the operations applied one after another
    targetingRun,        \* matchesTargeting: its arguments and its result
    snapshotRuns,        \* listenToFriends, listenToFeedPosts: the handlers in flight
    messageScreen,       \* MessageScreen: its props, state, effect and subscription
    chatMessages,        \* chats/{id}/messages sent to the current user
    markRuns,            \* markMessagesAsRead: the calls in flight
    accounts,            \* users/{id}: isBanned and isDeactivated
    session              \* the auth state, its handler and what UserApp keeps

handshakeVars ==
    <<friendIds, sentFriendRequests, privacy, friendRequests, inbox, calls, scenario>>
arrayVars == <<userDocs, batch>>
friendsVars == <<friendsListener, friendsSeen>>
reactionVars == <<reactions, comments, messageReactions, reacted>>
threadVars == <<post, minted, transactions, started, lastOp, serial>>
screenVars == <<messageScreen, chatMessages, markRuns>>
authVars == <<accounts, session>>

vars == <<handshakeVars, blockedUserIds, arrayVars, friendsVars, conversationRuns,
          reactionVars, threadVars, targetingRun, snapshotRuns, screenVars, authVars>>

\* What no step of the handshake touches.
beyondHandshake ==
    <<blockedUserIds, arrayVars, friendsVars, conversationRuns, reactionVars, threadVars, targetingRun, snapshotRuns, screenVars, authVars>>

store == <<friendIds, sentFriendRequests, privacy, friendRequests, inbox>>

\* ------------------------------------------------------- observer values
\* What a call saw of the store when it was issued.
Snap ==
    [valid |-> TRUE, f |-> friendIds, s |-> sentFriendRequests, p |-> privacy,
     r |-> friendRequests, n |-> inbox]

NoSnap ==
    [valid |-> FALSE, f |-> [u \in Users |-> {}], s |-> [u \in Users |-> {}],
     p |-> [u \in Users |-> "everyone"],
     r |-> [e \in Users \X Users |-> "absent"], n |-> [u \in Users |-> 0]]

IdleCall ==
    [op |-> "idle", self |-> NoUser, target |-> NoUser, pc |-> "idle",
     sFriends |-> {}, mutual |-> {}, rPrivacy |-> "none",
     ex1 |-> FALSE, ex2 |-> FALSE, hits |-> {},
     result |-> "none", logged |-> FALSE,
     pre |-> NoSnap, mix |-> "none"]

NoScenario == [stage |-> "none", a |-> NoUser, b |-> NoUser, sent |-> FALSE]

\* ------------------------------------------------------------ the store
\* `${from}_${to}`: the document key of a request.
requestId(from, to) == <<from, to>>

\* ------------------------------------- the documents beyond the handshake
\* users/{id} as the array-field revision keeps it.
NewUserDoc ==
    [friendIds |-> {}, friendRequestsSent |-> {}, friendRequestsReceived |-> {},
     blockedUserIds |-> {}]

NoBatch ==
    [op |-> "none", self |-> NoUser, target |-> NoUser,
     pre |-> [u \in Users |-> NewUserDoc]]

\* listenToFriends before it is called: no subscription, nothing emitted.
NotListening ==
    [started |-> FALSE, disposed |-> FALSE, mainLive |-> FALSE, pushes |-> 0,
     live |-> {}, friendListeners |-> <<>>, friendsData |-> <<>>]

NothingSeen ==
    [event |-> "none", out |-> <<>>, parent |-> "none", friendIds |-> {},
     dropped |-> {}, child |-> NoUser, deleted |-> FALSE,
     latest |-> [f \in Users |-> 0]]

\* A handler of listenToConversations that is not running.
IdleRun ==
    [pc |-> "idle", docs |-> <<>>, i |-> 0, convos |-> <<>>, last |-> 0,
     reads |-> {}, called |-> 0, out |-> <<>>]

\* AVAILABLE_REACTIONS, two of them.
Emojis == {"heart", "laugh"}
NoEmoji == "none"
NoReactions == [u \in Users |-> NoEmoji]
CommentIds == {"c1", "c2"}

\* The observer of reactions before any was made.
NoReacted ==
    [n |-> 0, kind |-> "none", revision |-> "none", target |-> "none",
     userId |-> NoUser, first |-> NoEmoji, second |-> NoEmoji,
     pre |-> "none", mid |-> "none"]

\* undefined, of a text and of a media reference.
NoText == "none"
NoUrl == "none"
NoComment == "none"

\* The author of the post.
PostAuthor == "a"

\* A text comment as createComment stores it.
TextComment(id, author, text) ==
    [id |-> id, author |-> author, type |-> "text", text |-> text,
     imageUrl |-> NoUrl, audioUrl |-> NoUrl, isDeleted |-> FALSE,
     reactions |-> NoReactions]

\* A post with a poll of two options, before any comment, vote or best answer.
NewPost ==
    [commentCount |-> 0,
     poll |-> <<[votes |-> 0, votedBy |-> <<>>], [votes |-> 0, votedBy |-> <<>>]>>,
     bestAnswerId |-> NoComment]

\* The sessions that run transactions on the post.
Sessions == {"s1", "s2"}

NoOp == [name |-> "none", revision |-> "none", userId |-> NoUser,
         commentId |-> NoComment, args |-> "none"]

IdleTransaction == [pc |-> "idle", op |-> NoOp, read |-> "none", attempts |-> 0]

\* The observer of the post before any operation.
NothingDone ==
    [op |-> NoOp, before |-> "none", read |-> "none", attempts |-> 0,
     outcome |-> "none", uploads |-> 0]

\* posts/{id} as one document.
PostDoc ==
    [reactions |-> reactions, comments |-> comments,
     commentCount |-> post.commentCount, poll |-> post.poll,
     bestAnswerId |-> post.bestAnswerId]

\* A snapshot handler of listenToFriends or listenToFeedPosts (of
\* services/firebaseService.ts) that is not running.
IdleHandler == [pc |-> "idle", kind |-> "none", push |-> 0, ids |-> {}]

\* No push yet, to either subscription, and nothing called back.
NoHandlers ==
    [pushed |-> 0, runs |-> [r \in Runs |-> IdleHandler],
     last |-> [friends |-> 0, feed |-> 0],
     out |-> [friends |-> {}, feed |-> {}],
     called |-> "none", inOrder |-> TRUE]

\* The chats of the current user of MessageScreen, "a": with b and with c.
Chats == {"ab", "ac"}
NoChat == "none"

\* No render of MessageScreen was committed, no listener is subscribed.
NotRendered == [chatId |-> NoChat, isLoading |-> FALSE]
Unsubscribed == [chatId |-> NoChat, isLoading |-> FALSE, pushed |-> FALSE,
                 messages |-> {}]

\* A chat nobody wrote in: sent counts the messages to the current user,
\* unread holds those of them with read = false.
NoMessages == [sent |-> 0, unread |-> {}]

\* MessageScreen is not mounted.
Closed ==
    [mounted |-> FALSE, chatId |-> NoChat, isLoading |-> FALSE,
     rendered |-> NotRendered, subscription |-> Unsubscribed,
     listeners |-> 0, marks |-> 0]

\* A call of markMessagesAsRead that is not running.
IdleMark == [pc |-> "idle", chatId |-> NoChat, docs |-> {}]

\* users/{id} of an account neither banned nor deactivated.
InGoodStanding == [isBanned |-> FALSE, isDeactivated |-> FALSE]

\* Nobody is signed in.
NoProfile == [id |-> NoUser, fallback |-> FALSE, barred |-> FALSE]
SignedOut ==
    [firebaseUser |-> NoUser, pc |-> "idle", uid |-> NoUser,
     delivered |-> NoProfile, listening |-> NoUser, user |-> NoProfile]

\* The store after sign-up of the users, with one post and one message,
\* none reacted to; no call in flight and no listener.
SignedUp ==
    /\ friendIds = [u \in Users |-> {}]
    /\ sentFriendRequests = [u \in Users |-> {}]
    /\ privacy = [u \in Users |-> "everyone"]
    /\ friendRequests = [e \in Users \X Users |-> "absent"]
    /\ inbox = [u \in Users |-> 0]
    /\ calls = [s \in Procs |-> IdleCall]
    /\ scenario = NoScenario
    /\ blockedUserIds = [u \in Users |-> {}]
    /\ userDocs = [u \in Users |-> NewUserDoc]
    /\ batch = NoBatch
    /\ friendsListener = NotListening
    /\ friendsSeen = NothingSeen
    /\ conversationRuns = [r \in Runs |-> IdleRun]
    /\ reactions = NoReactions
    /\ messageReactions = [e \in Emojis |-> {}]
    /\ reacted = NoReacted
    /\ transactions = [s \in Sessions |-> IdleTransaction]
    /\ started = 0
    /\ lastOp = NothingDone
    /\ snapshotRuns = NoHandlers
    /\ messageScreen = Closed
    /\ chatMessages = [c \in Chats |-> NoMessages]
    /\ markRuns = [r \in Runs |-> IdleMark]
    /\ accounts = [u \in Users |-> InGoodStanding]
    /\ session = SignedOut

\* The empty string, as a sequence of characters, also for a string that is
\* undefined.
Empty == <<>>

\* A campaign with no targeting and a profile with nothing declared.
Untargeted ==
    [campaign |-> [hasTargeting |-> FALSE,
                   targeting |-> [location |-> Empty, gender |-> "",
                                  ageRange |-> Empty, interests |-> <<>>]],
     user |-> [currentCity |-> Empty, gender |-> "", age |-> 0, bio |-> Empty],
     applied |-> FALSE, result |-> FALSE]

\* The post has two comments.
Init ==
    /\ SignedUp
    /\ targetingRun = Untargeted
    /\ comments = <<TextComment("c1", "b", "hi"), TextComment("c2", "c", "hi")>>
    /\ post = [NewPost EXCEPT !.commentCount = 2]
    /\ minted = {"c1", "c2"}
    /\ serial = PostDoc

\* The post was just created: it has no comment.
InitNewPost ==
    /\ SignedUp
    /\ targetingRun = Untargeted
    /\ comments = <<>>
    /\ post = NewPost
    /\ minted = {}
    /\ serial = PostDoc

\* --------------------------------------------------- observer bookkeeping
\* What a step of the call `by` does to the observations of another call c:
\* c keeps its snapshot only while nothing but reconcile runs of the same
\* user, themselves undisturbed by anything else, has acted since c was
\* issued.
Touch(c, by) ==
    IF c.pc = "idle" THEN c
    ELSE IF /\ c.op = "syncAcceptedFriends"
            /\ by.op = "syncAcceptedFriends"
            /\ by.self = c.self
            /\ by.mix # "other"
            /\ c.mix # "other"
         THEN [c EXCEPT !.mix = "sameSync"]
         ELSE [c EXCEPT !.mix = "other", !.pre = NoSnap]

TouchAll(c) ==
    IF c.pc = "idle" THEN c ELSE [c EXCEPT !.mix = "other", !.pre = NoSnap]

Quiet(s) == \A t \in Procs \ {s} : calls[t].pc \in {"idle", "done"}

NoRelationship(u, t) ==
    /\ t \notin friendIds[u]
    /\ u \notin friendIds[t]
    /\ friendRequests[requestId(u, t)] = "absent"
    /\ friendRequests[requestId(t, u)] = "absent"

\* The observer of "sendRequest(A,B), then accept(B,A), then reconcile(A)":
\* it follows the three calls while they are issued one after the other and
\* nothing else is issued in between.
ScenarioOnStart(s, op, u, t) ==
    IF op = "addFriend" /\ Quiet(s) /\ u # t /\ NoRelationship(u, t)
    THEN [stage |-> "sending", a |-> u, b |-> t, sent |-> FALSE]
    ELSE IF /\ op = "acceptFriendRequest" /\ scenario.stage = "sent"
            /\ u = scenario.b /\ t = scenario.a
    THEN [scenario EXCEPT !.stage = "accepting"]
    ELSE IF /\ op = "syncAcceptedFriends" /\ scenario.stage = "accepted"
            /\ u = scenario.a
    THEN [scenario EXCEPT !.stage = "syncing"]
    ELSE NoScenario

ScenarioOnStep(new) ==
    IF new.pc # "done" THEN scenario
    ELSE IF scenario.stage = "sending"
    THEN [scenario EXCEPT !.stage = "sent", !.sent = (new.result = "success")]
    ELSE IF scenario.stage = "accepting"
    THEN [scenario EXCEPT !.stage = "accepted"]
    ELSE IF scenario.stage = "syncing"
    THEN [scenario EXCEPT !.stage = "synced"]
    ELSE scenario

\* Call s is issued: op(u, t).
Issue(s, op, u, t, pc0) ==
    /\ calls[s].pc = "idle"
    /\ calls' = [calls EXCEPT ![s] =
            [IdleCall EXCEPT !.op = op, !.self = u, !.target = t, !.pc = pc0,
                             !.pre = Snap]]
    /\ scenario' = ScenarioOnStart(s, op, u, t)
    /\ UNCHANGED <<store, beyondHandshake>>

\* Call s moves on to the record `new`.
\* The locals of a call that has returned are gone; of a reconcile run the
\* observer keeps the requests it found.
Settle(c) ==
    IF c.pc # "done" THEN c
    ELSE [c EXCEPT !.sFriends = {}, !.mutual = {}, !.rPrivacy = "none",
                   !.ex1 = FALSE, !.ex2 = FALSE]

Step(s, new) ==
    /\ calls' = [t \in Procs |-> IF t = s THEN Settle(new)
                                  ELSE Touch(calls[t], calls[s])]
    /\ scenario' = ScenarioOnStep(new)
    /\ UNCHANGED beyondHandshake

At(s, op, pc) == calls[s].op = op /\ calls[s].pc = pc

\* The caller takes the result of a finished call.
Return(s) ==
    /\ calls[s].pc = "done"
    /\ calls' = [calls EXCEPT ![s] = IdleCall]
    /\ UNCHANGED <<store, scenario, beyondHandshake>>

\* ------------------------------------------------------------ addFriend
addFriend(s, currentUserId, targetUserId) ==
    Issue(s, "addFriend", currentUserId, targetUserId, "readSender")

\* const sender = await this.getUserProfileById(currentUserId)
addFriendReadSender(s) ==
    /\ At(s, "addFriend", "readSender")
    /\ Step(s, [calls[s] EXCEPT !.sFriends = friendIds[calls[s].self],
                                !.pc = "readReceiver"])
    /\ UNCHANGED store

\* [...senderFriends].filter(friendId => receiverFriends.has(friendId))
mutualFriends(senderFriends, receiverFriends) == senderFriends \cap receiverFriends

\* const receiver = await this.getUserProfileById(targetUserId). Of the two
\* profiles the call goes on to use the receiver's privacy rule and the
\* mutual friends only, so these are what it keeps.
addFriendReadReceiver(s) ==
    /\ At(s, "addFriend", "readReceiver")
    /\ Step(s, [calls[s] EXCEPT
            !.mutual = mutualFriends(calls[s].sFriends, friendIds[calls[s].target]),
            !.sFriends = {},
            !.rPrivacy = privacy[calls[s].target],
            !.pc = "readReq1"])
    /\ UNCHANGED store

\* const existingReq1 = await ...doc(requestId1).get()
addFriendReadReq1(s) ==
    /\ At(s, "addFriend", "readReq1")
    /\ Step(s, [calls[s] EXCEPT
            !.ex1 = (friendRequests[requestId(calls[s].self, calls[s].target)] # "absent"),
            !.pc = "readReq2"])
    /\ UNCHANGED store

\* if (existingReq1.exists || existingReq2.exists) return { success: true }
existingRequestOneWay(ex1, ex2) == ex1

existingRequest(ex1, ex2) == ex1 \/ ex2

\* The privacy check: the target admits only friends of friends and there is
\* no mutual friend (a request to oneself is let through).
privacyDeniedWhateverMutual(c) ==
    /\ c.rPrivacy = "friends_of_friends"
    /\ c.target # c.self

privacyDenied(c) ==
    /\ c.rPrivacy = "friends_of_friends"
    /\ c.mutual = {}
    /\ c.target # c.self

\* const existingReq2 = await ...doc(requestId2).get(), then the code up to
\* the next await: the duplicate check and the privacy check.
addFriendReadReq2(s) ==
    /\ At(s, "addFriend", "readReq2")
    /\ LET c == calls[s]
           ex2 == friendRequests[requestId(c.target, c.self)] # "absent"
       IN  Step(s, IF existingRequest(c.ex1, ex2)
                   THEN [c EXCEPT !.ex2 = ex2, !.result = "success", !.pc = "done"]
                   ELSE IF privacyDenied(c)
                   THEN [c EXCEPT !.ex2 = ex2, !.result = "friends_of_friends",
                                  !.pc = "done"]
                   ELSE [c EXCEPT !.ex2 = ex2, !.pc = "setDoc"])
    /\ UNCHANGED store

\* await requestDocRef.set({ from, to, status: 'pending', ... })
addFriendSetDoc(s) ==
    /\ At(s, "addFriend", "setDoc")
    /\ friendRequests' =
         [friendRequests EXCEPT ![requestId(calls[s].self, calls[s].target)] = "pending"]
    /\ Step(s, [calls[s] EXCEPT !.result = "success", !.pc = "done"])
    /\ UNCHANGED <<friendIds, sentFriendRequests, privacy, inbox>>

\* -------------------------------------------------- acceptFriendRequest
RECURSIVE SumOver(_, _)
SumOver(f, S) ==
    IF S = {} THEN 0
    ELSE LET x == CHOOSE y \in S : TRUE IN f[x] + SumOver(f, S \ {x})

\* The notification documents the store holds.
Deposited == SumOver(inbox, Users)

acceptFriendRequest(s, currentUserId, requestingUserId) ==
    Issue(s, "acceptFriendRequest", currentUserId, requestingUserId, "updateRequest")

\* requestRef.update(...) rejects when the document does not exist.
requestUpsertable(status) == TRUE

requestUpdatable(status) == status # "absent"

\* await requestRef.update({ status: 'accepted' }); a rejected update is
\* caught and logged, and the call returns.
acceptUpdateRequest(s) ==
    /\ At(s, "acceptFriendRequest", "updateRequest")
    /\ LET c == calls[s]
           id == requestId(c.target, c.self)
       IN  IF requestUpdatable(friendRequests[id])
           THEN /\ friendRequests' = [friendRequests EXCEPT ![id] = "accepted"]
                /\ Step(s, [c EXCEPT !.pc = "updateUser"])
           ELSE /\ friendRequests' = friendRequests
                /\ Step(s, [c EXCEPT !.logged = TRUE, !.result = "void", !.pc = "done"])
    /\ UNCHANGED <<friendIds, sentFriendRequests, privacy, inbox>>

\* await currentUserRef.update({ friendIds: arrayUnion(requestingUserId) })
acceptUpdateBoth(s) ==
    /\ At(s, "acceptFriendRequest", "updateUser")
    /\ friendIds' = [friendIds EXCEPT ![calls[s].self] = @ \cup {calls[s].target},
                                      ![calls[s].target] = @ \cup {calls[s].self}]
    /\ Step(s, [calls[s] EXCEPT !.pc = "readSelf"])
    /\ UNCHANGED <<sentFriendRequests, privacy, friendRequests, inbox>>

acceptUpdateUser(s) ==
    /\ At(s, "acceptFriendRequest", "updateUser")
    /\ friendIds' = [friendIds EXCEPT ![calls[s].self] = @ \cup {calls[s].target}]
    /\ Step(s, [calls[s] EXCEPT !.pc = "readSelf"])
    /\ UNCHANGED <<sentFriendRequests, privacy, friendRequests, inbox>>

\* const currentUserData = await this.getUserProfileById(currentUserId)
acceptReadSelf(s) ==
    /\ At(s, "acceptFriendRequest", "readSelf")
    /\ Step(s, [calls[s] EXCEPT !.pc = "notify"])
    /\ UNCHANGED store

\* await ...doc(requestingUserId).collection('notifications').add(...): the
\* store takes the document (acceptNotify), or rejects the write into another
\* user's inbox, which is caught and logged (acceptNotifyRejected).
acceptNotify(s) ==
    /\ At(s, "acceptFriendRequest", "notify")
    /\ Deposited < MaxNotifs
    /\ inbox' = [inbox EXCEPT ![calls[s].target] = @ + 1]
    /\ Step(s, [calls[s] EXCEPT !.result = "void", !.pc = "done"])
    /\ UNCHANGED <<friendIds, sentFriendRequests, privacy, friendRequests>>

acceptNotifyUndone(s) ==
    /\ At(s, "acceptFriendRequest", "notify")
    /\ friendIds' = [friendIds EXCEPT ![calls[s].self] = @ \ {calls[s].target}]
    /\ Step(s, [calls[s] EXCEPT !.logged = TRUE, !.result = "void", !.pc = "done"])
    /\ UNCHANGED <<sentFriendRequests, privacy, friendRequests, inbox>>

acceptNotifyRejected(s) ==
    /\ At(s, "acceptFriendRequest", "notify")
    /\ Step(s, [calls[s] EXCEPT !.logged = TRUE, !.result = "void", !.pc = "done"])
    /\ UNCHANGED store

\* ------------------------------------------------- declineFriendRequest
declineFriendRequest(s, currentUserId, requestingUserId) ==
    Issue(s, "declineFriendRequest", currentUserId, requestingUserId, "deleteRequest")

\* What requestRef.delete() leaves of the document.
deletePendingRequest(status) == IF status = "pending" THEN "absent" ELSE status

deleteRequest(status) == "absent"

\* await requestRef.delete()
declineDeleteRequest(s) ==
    /\ At(s, "declineFriendRequest", "deleteRequest")
    /\ LET id == requestId(calls[s].target, calls[s].self)
       IN  friendRequests' = [friendRequests EXCEPT ![id] = deleteRequest(@)]
    /\ Step(s, [calls[s] EXCEPT !.result = "void", !.pc = "done"])
    /\ UNCHANGED <<friendIds, sentFriendRequests, privacy, inbox>>

\* -------------------------------------------------- syncAcceptedFriends
\* onAuthStateChanged: a session of userId starts and reconciles first.
syncAcceptedFriends(s, userId) ==
    Issue(s, "syncAcceptedFriends", userId, NoUser, "query")

\* where('from.id', '==', userId).where('status', '==', 'accepted'): the
\* recipients of the requests the query returns.
pendingRequestsFrom(userId) ==
    {t \in Users : friendRequests[requestId(userId, t)] = "pending"}

allRequestsFrom(userId) ==
    {t \in Users : friendRequests[requestId(userId, t)] # "absent"}

acceptedRequestsFrom(userId) ==
    {t \in Users : friendRequests[requestId(userId, t)] = "accepted"}

\* const snapshot = await q.get(); if (snapshot.empty) return
syncQuery(s) ==
    /\ At(s, "syncAcceptedFriends", "query")
    /\ LET hits == acceptedRequestsFrom(calls[s].self)
       IN  Step(s, IF hits = {}
                   THEN [calls[s] EXCEPT !.result = "void", !.pc = "done"]
                   ELSE [calls[s] EXCEPT !.hits = hits, !.pc = "commit"])
    /\ UNCHANGED store

\* friendIds: arrayUnion(...friendsToAdd)
toggleFriends(current, friendsToAdd) ==
    (current \ friendsToAdd) \cup (friendsToAdd \ current)

addFriends(current, friendsToAdd) == current \cup friendsToAdd

\* await batch.commit(): every request found is deleted and its recipient
\* moves from sentFriendRequests to friendIds, in one atomic write.
syncCommit(s) ==
    /\ At(s, "syncAcceptedFriends", "commit")
    /\ LET c == calls[s]
       IN  /\ friendRequests' =
                 [e \in Users \X Users |->
                    IF e[1] = c.self /\ e[2] \in c.hits
                    THEN "absent" ELSE friendRequests[e]]
           /\ friendIds' = [friendIds EXCEPT ![c.self] = addFriends(@, c.hits)]
           /\ sentFriendRequests' = [sentFriendRequests EXCEPT ![c.self] = @ \ c.hits]
           /\ Step(s, [c EXCEPT !.result = "void", !.pc = "done"])
    /\ UNCHANGED <<privacy, inbox>>

\* -------------------------------------------------------- updateProfile
\* await userRef.update(updatesToSave), for a change of the friend-request
\* privacy rule.
updateProfile(userId, rule) ==
    /\ privacy[userId] # rule
    /\ privacy' = [privacy EXCEPT ![userId] = rule]
    /\ calls' = [t \in Procs |-> TouchAll(calls[t])]
    /\ scenario' = IF scenario.stage \in {"sending", "accepting", "syncing"}
                   THEN NoScenario ELSE scenario
    /\ UNCHANGED <<friendIds, sentFriendRequests, friendRequests, inbox, beyondHandshake>>

\* ---------------------------------------------------------------- Next
AllIdle == \A s \in Procs : calls[s].pc = "idle"

\* A call takes the first free slot.
FirstIdle(s) == calls[s].pc = "idle" /\ \A t \in Procs : t < s => calls[t].pc # "idle"

\* The steps of the calls in flight, but for the deposit of a notification.
Progress ==
    \/ \E s \in Procs : addFriendReadSender(s)
    \/ \E s \in Procs : addFriendReadReceiver(s)
    \/ \E s \in Procs : addFriendReadReq1(s)
    \/ \E s \in Procs : addFriendReadReq2(s)
    \/ \E s \in Procs : addFriendSetDoc(s)
    \/ \E s \in Procs : acceptUpdateRequest(s)
    \/ \E s \in Procs : acceptUpdateUser(s)
    \/ \E s \in Procs : acceptReadSelf(s)
    \/ \E s \in Procs : acceptNotifyRejected(s)
    \/ \E s \in Procs : declineDeleteRequest(s)
    \/ \E s \in Procs : syncQuery(s)
    \/ \E s \in Procs : syncCommit(s)
    \/ \E s \in Procs : Return(s)

\* The calls in flight are all reconcile runs (sessions starting).
OnlySessions == \A s \in Procs : calls[s].op \in {"idle", "syncAcceptedFriends"}

\* Two users, their calls issued one at a time, except that sessions of a
\* user may start while other sessions are still reconciling; privacy rules
\* change between calls.
Pair == {"a", "b"}

Next ==
    \/ \E s \in Procs, u \in Pair : \E t \in Pair \ {u} :
            AllIdle /\ FirstIdle(s) /\ addFriend(s, u, t)
    \/ \E s \in Procs, u \in Pair : \E t \in Pair \ {u} :
            AllIdle /\ FirstIdle(s) /\ acceptFriendRequest(s, u, t)
    \/ \E s \in Procs, u \in Pair : \E t \in Pair \ {u} :
            AllIdle /\ FirstIdle(s) /\ declineFriendRequest(s, u, t)
    \/ \E s \in Procs, u \in Pair :
            OnlySessions /\ FirstIdle(s) /\ syncAcceptedFriends(s, u)
    \/ \E u \in Pair, p \in PrivacyRules : AllIdle /\ updateProfile(u, p)
    \/ \E s \in Procs : acceptNotify(s)
    \/ Progress

Spec == Init /\ [][Next]_vars

\* Three users, calls issued one at a time: a and b deal with each other as
\* above and each may befriend c, who accepts; a may also name itself.
TrioSend == {<<"a", "b">>, <<"b", "a">>, <<"a", "c">>, <<"b", "c">>, <<"a", "a">>}
TrioAccept == {<<"a", "b">>, <<"b", "a">>, <<"c", "a">>, <<"c", "b">>}
TrioDecline == {<<"a", "b">>, <<"b", "a">>}

TrioNext ==
    \/ \E s \in Procs, e \in TrioSend :
            AllIdle /\ FirstIdle(s) /\ addFriend(s, e[1], e[2])
    \/ \E s \in Procs, e \in TrioAccept :
            AllIdle /\ FirstIdle(s) /\ acceptFriendRequest(s, e[1], e[2])
    \/ \E s \in Procs, e \in TrioDecline :
            AllIdle /\ FirstIdle(s) /\ declineFriendRequest(s, e[1], e[2])
    \/ \E s \in Procs, u \in Pair :
            AllIdle /\ FirstIdle(s) /\ syncAcceptedFriends(s, u)
    \/ \E u \in Users, p \in PrivacyRules : AllIdle /\ updateProfile(u, p)
    \/ Progress

TrioSpec == Init /\ [][TrioNext]_vars

\* Two users whose calls overlap freely.
RaceNext ==
    \/ \E s \in Procs, u \in Pair : \E t \in Pair \ {u} :
            FirstIdle(s) /\ addFriend(s, u, t)
    \/ \E s \in Procs, u \in Pair : \E t \in Pair \ {u} :
            FirstIdle(s) /\ acceptFriendRequest(s, u, t)
    \/ \E s \in Procs, u \in Pair : \E t \in Pair \ {u} :
            FirstIdle(s) /\ declineFriendRequest(s, u, t)
    \/ \E s \in Procs, u \in Pair :
            FirstIdle(s) /\ syncAcceptedFriends(s, u)
    \/ \E s \in Procs : acceptNotify(s)
    \/ Progress

RaceSpec == Init /\ [][RaceNext]_vars

\* ================================================ the array-field revision
\* The friend operations of the revision that keeps requests in array fields
\* of the user documents. Each is one write, awaited once: the store applies
\* it as a whole or (a document missing) not at all.
arrayUnion(field, id) == field \cup {id}
arrayRemove(field, id) == field \ {id}

ArraysOnly ==
    UNCHANGED <<handshakeVars, blockedUserIds, friendsVars, conversationRuns,
                reactionVars, threadVars, targetingRun, snapshotRuns, screenVars, authVars>>

\* The observer notes the write and the documents it found.
Committed(op, currentUserId, targetUserId) ==
    batch' = [op |-> op, self |-> currentUserId, target |-> targetUserId,
              pre |-> userDocs]

\* addFriend: friendRequestsSent of the sender and friendRequestsReceived of
\* the target, in one batch.
addFriendBatch(currentUserId, targetUserId) ==
    /\ userDocs' =
         [userDocs EXCEPT
            ![currentUserId].friendRequestsSent = arrayUnion(@, targetUserId),
            ![targetUserId].friendRequestsReceived = arrayUnion(@, currentUserId)]
    /\ Committed("addFriend", currentUserId, targetUserId)
    /\ ArraysOnly

\* acceptFriendRequest: each into the other's friendIds and the request out
\* of the accepter's received list, in one batch (the friendRequestsApproved
\* marker of the requester is left out: no operation below reads it).
acceptFriendRequestBatch(currentUserId, requestingUserId) ==
    /\ userDocs' =
         [userDocs EXCEPT
            ![currentUserId].friendIds = arrayUnion(@, requestingUserId),
            ![requestingUserId].friendIds = arrayUnion(@, currentUserId),
            ![currentUserId].friendRequestsReceived = arrayRemove(@, requestingUserId)]
    /\ Committed("acceptFriendRequest", currentUserId, requestingUserId)
    /\ ArraysOnly

\* declineFriendRequest: currentUserRef.update({ friendRequestsReceived:
\* arrayRemove(requestingUserId) })
declineFriendRequestUpdate(currentUserId, requestingUserId) ==
    /\ userDocs' =
         [userDocs EXCEPT
            ![currentUserId].friendRequestsReceived = arrayRemove(@, requestingUserId)]
    /\ Committed("declineFriendRequest", currentUserId, requestingUserId)
    /\ ArraysOnly

\* The batch of unfriendUser: what it leaves of the user documents.
unfriendOwnSide(docs, currentUserId, targetUserId) ==
    [docs EXCEPT ![currentUserId].friendIds = arrayRemove(@, targetUserId)]

unfriendBatch(docs, currentUserId, targetUserId) ==
    [docs EXCEPT ![currentUserId].friendIds = arrayRemove(@, targetUserId),
                 ![targetUserId].friendIds = arrayRemove(@, currentUserId)]

unfriendUser(currentUserId, targetUserId) ==
    /\ userDocs' = unfriendBatch(userDocs, currentUserId, targetUserId)
    /\ Committed("unfriendUser", currentUserId, targetUserId)
    /\ ArraysOnly

\* The batch of cancelFriendRequest.
cancelBatch(docs, currentUserId, targetUserId) ==
    [docs EXCEPT
       ![currentUserId].friendRequestsSent = arrayRemove(@, targetUserId),
       ![targetUserId].friendRequestsReceived = arrayRemove(@, currentUserId)]

cancelFriendRequest(currentUserId, targetUserId) ==
    /\ userDocs' = cancelBatch(userDocs, currentUserId, targetUserId)
    /\ Committed("cancelFriendRequest", currentUserId, targetUserId)
    /\ ArraysOnly

\* finalizeFriendship: the requester takes the accepter out of its sent list.
finalizeFriendship(currentUserId, acceptedByUser) ==
    /\ userDocs' =
         [userDocs EXCEPT
            ![currentUserId].friendRequestsSent = arrayRemove(@, acceptedByUser)]
    /\ Committed("finalizeFriendship", currentUserId, acceptedByUser)
    /\ ArraysOnly

\* blockUser of this revision: the blocker's own document only.
blockUserOwnDoc(currentUserId, targetUserId) ==
    /\ userDocs' =
         [userDocs EXCEPT
            ![currentUserId].blockedUserIds = arrayUnion(@, targetUserId)]
    /\ Committed("blockUser", currentUserId, targetUserId)
    /\ ArraysOnly

\* a and b deal with each other and a with c; a may block b.
ArrayPairs == {<<"a", "b">>, <<"b", "a">>, <<"a", "c">>, <<"c", "a">>}

ArrayNext ==
    \/ \E e \in ArrayPairs : addFriendBatch(e[1], e[2])
    \/ \E e \in ArrayPairs : acceptFriendRequestBatch(e[1], e[2])
    \/ \E e \in ArrayPairs : declineFriendRequestUpdate(e[1], e[2])
    \/ \E e \in ArrayPairs : unfriendUser(e[1], e[2])
    \/ \E e \in ArrayPairs : cancelFriendRequest(e[1], e[2])
    \/ \E e \in ArrayPairs : finalizeFriendship(e[1], e[2])
    \/ blockUserOwnDoc("a", "b")

ArraySpec == Init /\ [][ArrayNext]_vars

\* ================================================================ blocking
BlockOnly ==
    UNCHANGED <<handshakeVars, arrayVars, friendsVars, conversationRuns, reactionVars, threadVars, targetingRun, snapshotRuns, screenVars, authVars>>

\* blockUser: a transaction that puts each user into the other's
\* blockedUserIds, and nothing else.
blockUser(currentUserId, targetUserId) ==
    /\ blockedUserIds' =
         [blockedUserIds EXCEPT ![currentUserId] = arrayUnion(@, targetUserId),
                                ![targetUserId] = arrayUnion(@, currentUserId)]
    /\ BlockOnly

\* unblockUser: the same transaction with arrayRemove (of a user who is not
\* blocked it changes nothing).
unblockUser(currentUserId, targetUserId) ==
    /\ targetUserId \in blockedUserIds[currentUserId]
    /\ blockedUserIds' =
         [blockedUserIds EXCEPT ![currentUserId] = arrayRemove(@, targetUserId),
                                ![targetUserId] = arrayRemove(@, currentUserId)]
    /\ BlockOnly

\* Two users whose calls are issued one at a time and who block and unblock
\* each other between calls.
BlockNext ==
    \/ \E s \in Procs, u \in Pair : \E t \in Pair \ {u} :
            AllIdle /\ FirstIdle(s) /\ addFriend(s, u, t)
    \/ \E s \in Procs, u \in Pair : \E t \in Pair \ {u} :
            AllIdle /\ FirstIdle(s) /\ acceptFriendRequest(s, u, t)
    \/ \E s \in Procs, u \in Pair : \E t \in Pair \ {u} :
            AllIdle /\ FirstIdle(s) /\ declineFriendRequest(s, u, t)
    \/ \E s \in Procs, u \in Pair :
            AllIdle /\ FirstIdle(s) /\ syncAcceptedFriends(s, u)
    \/ \E u \in Pair : \E t \in Pair \ {u} : AllIdle /\ blockUser(u, t)
    \/ \E u \in Pair : \E t \in Pair \ {u} : AllIdle /\ unblockUser(u, t)
    \/ Progress

BlockSpec == Init /\ [][BlockNext]_vars

\* ========================================================= listenToFriends
\* listenToFriends("a", callback): a subscription to the document of a, and
\* one child subscription per friend id of the last push. A subscription is
\* the pair of the document it listens to and the number of the parent push
\* that created it; the store delivers pushes to live subscriptions only, and
\* each handler runs to its end before the next push is delivered.
FriendPool == {"b", "c"}
Versions == 1..MaxVersion

FriendsOnly ==
    UNCHANGED <<handshakeVars, blockedUserIds, arrayVars, conversationRuns,
                reactionVars, threadVars, targetingRun, snapshotRuns, screenVars, authVars>>

Range(seq) == {seq[i] : i \in 1..Len(seq)}

RECURSIVE SeqOf(_)
SeqOf(S) ==
    IF S = {} THEN <<>>
    ELSE LET x == CHOOSE y \in S : TRUE IN <<x>> \o SeqOf(S \ {x})

\* friendListeners.forEach(unsubscribe => unsubscribe()): the subscriptions
\* still live afterwards.
unsubscribeNone(live, listeners) == live

unsubscribeAll(live, listeners) == live \ Range(listeners)

\* friendsData[friendId] = docToUser(friendDoc): an object keeps its keys in
\* the order they were first set, and Object.values lists them in that order.
onlyEntry(data, friendId, v) == <<[id |-> friendId, v |-> v]>>

setEntry(data, friendId, v) ==
    IF \E i \in 1..Len(data) : data[i].id = friendId
    THEN [i \in 1..Len(data) |->
            IF data[i].id = friendId THEN [id |-> friendId, v |-> v] ELSE data[i]]
    ELSE Append(data, [id |-> friendId, v |-> v])

\* delete friendsData[friendId]
deleteEntry(data, friendId) == SelectSeq(data, LAMBDA e : e.id # friendId)

listenToFriends ==
    /\ ~friendsListener.started
    /\ friendsListener' = [NotListening EXCEPT !.started = TRUE, !.mainLive = TRUE]
    /\ friendsSeen' = [NothingSeen EXCEPT !.event = "listen"]
    /\ FriendsOnly

\* setupListeners(friendIds): the old child subscriptions are cancelled and
\* forgotten with their data; an empty list is emitted at once, otherwise one
\* child subscription is created per id.
setupListeners(l, friendIdSet) ==
    LET cleaned == unsubscribeAll(l.live, l.friendListeners)
        created == {<<f, l.pushes + 1>> : f \in friendIdSet}
    IN  [l EXCEPT !.live = cleaned \cup created,
                  !.friendListeners = SeqOf(created),
                  !.friendsData = <<>>,
                  !.pushes = @ + 1]

\* The parent handler on a push of the document of a with friendIds.
parentPush(friendIdSet) ==
    /\ friendsListener.mainLive
    /\ friendsListener.pushes < MaxParentPushes
    /\ friendsListener' = setupListeners(friendsListener, friendIdSet)
    /\ friendsSeen' =
         [event |-> "parent",
          out |-> IF friendIdSet = {} THEN << <<>> >> ELSE <<>>,
          parent |-> "set", friendIds |-> friendIdSet,
          dropped |-> Range(friendsListener.friendListeners),
          child |-> NoUser, deleted |-> FALSE,
          latest |-> [f \in Users |-> 0]]
    /\ FriendsOnly

\* if (!userDoc.exists) { callback([]); return; }
parentMissing ==
    /\ friendsListener.mainLive
    /\ friendsSeen' =
         [friendsSeen EXCEPT !.event = "missing", !.out = << <<>> >>,
                             !.parent = "missing", !.dropped = {},
                             !.child = NoUser, !.deleted = FALSE]
    /\ UNCHANGED friendsListener
    /\ FriendsOnly

\* The child handler on a push of an existing friend document.
childPush(h, v) ==
    /\ h \in friendsListener.live
    /\ LET data == setEntry(friendsListener.friendsData, h[1], v)
       IN  /\ friendsListener' = [friendsListener EXCEPT !.friendsData = data]
           /\ friendsSeen' =
                [friendsSeen EXCEPT !.event = "child", !.out = <<data>>,
                                    !.dropped = {},
                                    !.child = h[1], !.deleted = FALSE,
                                    !.latest[h[1]] = v]
    /\ FriendsOnly

\* The child handler on a push that reports the friend document missing.
childDeleted(h) ==
    /\ h \in friendsListener.live
    /\ LET data == deleteEntry(friendsListener.friendsData, h[1])
       IN  /\ friendsListener' = [friendsListener EXCEPT !.friendsData = data]
           /\ friendsSeen' =
                [friendsSeen EXCEPT !.event = "child", !.out = <<data>>,
                                    !.dropped = {},
                                    !.child = h[1], !.deleted = TRUE,
                                    !.latest[h[1]] = 0]
    /\ FriendsOnly

\* The function listenToFriends returns: mainUnsubscribe(), then
\* friendListeners.forEach(unsubscribe => unsubscribe()).
disposerParentOnly(l) == [l EXCEPT !.mainLive = FALSE, !.disposed = TRUE]

disposer(l) ==
    [l EXCEPT !.mainLive = FALSE, !.disposed = TRUE,
              !.live = unsubscribeAll(l.live, l.friendListeners)]

dispose ==
    /\ friendsListener.started
    /\ ~friendsListener.disposed
    /\ friendsListener' = disposer(friendsListener)
    /\ friendsSeen' =
         [friendsSeen EXCEPT !.event = "dispose", !.out = <<>>, !.dropped = {},
                             !.child = NoUser, !.deleted = FALSE]
    /\ FriendsOnly

FriendsNext ==
    \/ listenToFriends
    \/ \E S \in SUBSET FriendPool : parentPush(S)
    \/ parentMissing
    \/ \E h \in friendsListener.live, v \in Versions : childPush(h, v)
    \/ \E h \in friendsListener.live : childDeleted(h)
    \/ dispose

FriendsSpec == Init /\ [][FriendsNext]_vars

\* =================================================== listenToConversations
\* listenToConversations("a", callback): each push of the chats of a starts
\* an asynchronous handler that reads, for one chat after the other, the
\* peer's profile, the most recent message and the unread messages, and then
\* calls back once. Handlers of successive pushes overlap; what a read
\* returns is whatever the messages are at that moment.
ConversationsOnly ==
    UNCHANGED <<handshakeVars, blockedUserIds, arrayVars, friendsVars, reactionVars, threadVars, targetingRun, snapshotRuns, screenVars, authVars>>

\* snapshot.docs of a push: the chats of a, each by its participants.
PushDocs == {<<>>, << <<"a", "b">> >>, << <<"a", "b">>, <<"a", "c">> >>}

Times == 1..MaxTime
\* unreadSnapshot.size: no unread message, or some.
UnreadCounts == {0, 1}

\* data.participants.find(p => p !== userId)
peerIdOf(participants, userId) ==
    IF \E k \in 1..Len(participants) : participants[k] # userId
    THEN participants[CHOOSE k \in 1..Len(participants) :
                        /\ participants[k] # userId
                        /\ \A j \in 1..(k - 1) : participants[j] = userId]
    ELSE NoUser

\* The profile getUserProfileById finds: every user keeps the document
\* sign-up created.
getUserProfileById(uid) == uid \in Users

\* convos.sort((a, b) => time of b - time of a): descending by the time of the
\* last message, summaries of equal time in the order they were pushed.
insertByTime(sorted, c) ==
    LET before == SelectSeq(sorted, LAMBDA x : x.createdAt >= c.createdAt)
        after == SelectSeq(sorted, LAMBDA x : x.createdAt < c.createdAt)
    IN  before \o <<c>> \o after

unsorted(convos) == convos

RECURSIVE sortByLastMessage(_)
sortByLastMessage(convos) ==
    IF convos = <<>> THEN <<>>
    ELSE insertByTime(sortByLastMessage(SubSeq(convos, 1, Len(convos) - 1)),
                      convos[Len(convos)])

\* The end of the loop body: on to the next chat, or callback(convos.sort(...)).
nextDoc(run) ==
    IF run.i < Len(run.docs)
    THEN [run EXCEPT !.i = @ + 1, !.last = 0, !.pc = "peer"]
    ELSE [run EXCEPT !.i = 0, !.last = 0, !.pc = "done",
                     !.called = @ + 1, !.out = sortByLastMessage(run.convos)]

\* Handler r moves on to `new`; when it calls back, the caller drops what
\* earlier handlers gave it.
RunStep(r, new) ==
    conversationRuns' =
        [q \in Runs |->
            IF q = r THEN new
            ELSE IF new.pc = "done" /\ conversationRuns[q].pc = "done" THEN IdleRun
            ELSE conversationRuns[q]]

\* A handler takes the first slot that holds no running handler.
FirstFree(r) ==
    /\ conversationRuns[r].pc \in {"idle", "done"}
    /\ \A q \in Runs : q < r => conversationRuns[q].pc \notin {"idle", "done"}

\* A push arrives: the handler runs up to its first await, or, the snapshot
\* being empty, to its end.
conversationsPush(r, docs) ==
    /\ FirstFree(r)
    /\ RunStep(r, IF docs = <<>>
                   THEN nextDoc([IdleRun EXCEPT !.docs = docs])
                   ELSE [IdleRun EXCEPT !.docs = docs, !.i = 1, !.pc = "peer"])
    /\ ConversationsOnly

\* const peer = await firebaseService.getUserProfileById(peerId)
readPeer(r) ==
    LET run == conversationRuns[r] IN
    /\ run.pc = "peer"
    /\ RunStep(r, IF getUserProfileById(peerIdOf(run.docs[run.i], "a"))
                   THEN [run EXCEPT !.pc = "last"]
                   ELSE nextDoc(run))
    /\ ConversationsOnly

\* const lastMessageSnapshot = await ...orderBy('createdAt', 'desc').limit(1).get()
\* finds no message (0) or the last message, created at `at`.
readLastMessage(r, at) ==
    LET run == conversationRuns[r] IN
    /\ run.pc = "last"
    /\ RunStep(r, [run EXCEPT !.last = at, !.pc = "unread",
                               !.reads = @ \cup {<<run.docs[run.i], "last">>}])
    /\ ConversationsOnly

\* const unreadSnapshot = await ...where('read', '==', false).get(), then the
\* summary is pushed when the chat has a message.
readUnread(r, size) ==
    LET run == conversationRuns[r]
        doc == run.docs[run.i]
        read == [run EXCEPT !.reads = @ \cup {<<doc, "unread">>}]
    IN
    /\ run.pc = "unread"
    /\ RunStep(r, nextDoc(IF run.last # 0
                           THEN [read EXCEPT !.convos =
                                   Append(@, [peer |-> peerIdOf(doc, "a"),
                                              createdAt |-> run.last,
                                              unreadCount |-> size])]
                           ELSE read))
    /\ ConversationsOnly

ConversationsNext ==
    \/ \E r \in Runs, docs \in PushDocs : conversationsPush(r, docs)
    \/ \E r \in Runs : readPeer(r)
    \/ \E r \in Runs, at \in 0..MaxTime : readLastMessage(r, at)
    \/ \E r \in Runs, size \in UnreadCounts : readUnread(r, size)

ConversationsSpec == Init /\ [][ConversationsNext]_vars

\* ================================================================ reactions
\* The observer follows the reactions one user makes in a row to one target
\* through one revision of the service: the last two of them (first, second),
\* the reactions of the target before the first (pre) and before the second
\* (mid); of a single reaction, pre and mid are the reactions before it.
Reacted(kind, revision, target, userId, emoji, before) ==
    IF /\ reacted.n >= 1
       /\ reacted.kind = kind /\ reacted.revision = revision
       /\ reacted.target = target /\ reacted.userId = userId
    THEN [n |-> 2, kind |-> kind, revision |-> revision, target |-> target,
          userId |-> userId,
          first |-> IF reacted.n = 2 THEN reacted.second ELSE reacted.first,
          second |-> emoji, pre |-> reacted.mid, mid |-> before]
    ELSE [n |-> 1, kind |-> kind, revision |-> revision, target |-> target,
          userId |-> userId, first |-> emoji, second |-> NoEmoji,
          pre |-> before, mid |-> before]

PostOnly ==
    UNCHANGED <<handshakeVars, blockedUserIds, arrayVars, friendsVars,
                conversationRuns, comments, messageReactions, threadVars, targetingRun, snapshotRuns, screenVars, authVars>>

CommentsOnly ==
    UNCHANGED <<handshakeVars, blockedUserIds, arrayVars, friendsVars,
                conversationRuns, reactions, messageReactions, threadVars, targetingRun, snapshotRuns, screenVars, authVars>>

MessageOnly ==
    UNCHANGED <<handshakeVars, blockedUserIds, arrayVars, friendsVars,
                conversationRuns, reactions, comments, threadVars, targetingRun, snapshotRuns, screenVars, authVars>>

\* The transaction body of reactToPost and of reactToComment: the user's
\* entry is deleted when it equals the new reaction and set to it otherwise.
toggleReaction(map, userId, newReaction) ==
    IF map[userId] = newReaction
    THEN [map EXCEPT ![userId] = NoEmoji]
    ELSE [map EXCEPT ![userId] = newReaction]

\* [`reactions.${userId}`]: emoji, and reactions[userId] = emoji: the entry
\* is set whatever it was.
overwriteReaction(map, userId, emoji) == [map EXCEPT ![userId] = emoji]

\* reactToPost of services/firebaseService.ts: one transaction on the post.
reactToPost(userId, newReaction) ==
    /\ reactions' = toggleReaction(reactions, userId, newReaction)
    /\ reacted' = Reacted("post", "transaction", "post", userId, newReaction, reactions)
    /\ PostOnly

\* reactToPost of the other revision: one update of the post.
reactToPostOverwrite(userId, emoji) ==
    /\ reactions' = overwriteReaction(reactions, userId, emoji)
    /\ reacted' = Reacted("post", "update", "post", userId, emoji, reactions)
    /\ PostOnly

\* comments.findIndex(c => c.id === commentId), counting from 1; 0 when no
\* comment has the id.
findIndex(all, commentId) ==
    IF \E k \in 1..Len(all) : all[k].id = commentId
    THEN CHOOSE k \in 1..Len(all) :
            /\ all[k].id = commentId
            /\ \A j \in 1..(k - 1) : all[j].id # commentId
    ELSE 0

\* reactToComment of services/firebaseService.ts: one transaction on the post.
reactToComment(commentId, userId, newReaction) ==
    /\ LET commentIndex == findIndex(comments, commentId) IN
       comments' =
         IF commentIndex = 0 THEN comments
         ELSE [comments EXCEPT ![commentIndex].reactions =
                                  toggleReaction(@, userId, newReaction)]
    /\ reacted' = Reacted("comment", "transaction", commentId, userId, newReaction,
                          comments)
    /\ CommentsOnly

\* reactToComment of the other revision: one transaction on the post.
reactToCommentOverwrite(commentId, userId, emoji) ==
    /\ LET commentIndex == findIndex(comments, commentId) IN
       comments' =
         IF commentIndex = 0 THEN comments
         ELSE [comments EXCEPT ![commentIndex].reactions =
                                  overwriteReaction(@, userId, emoji)]
    /\ reacted' = Reacted("comment", "update", commentId, userId, emoji, comments)
    /\ CommentsOnly

\* [`reactions.${emoji}`]: arrayUnion(userId)
moveToEmojiSet(sets, emoji, userId) ==
    [e \in Emojis |-> IF e = emoji THEN sets[e] \cup {userId} ELSE sets[e] \ {userId}]

addToEmojiSet(sets, emoji, userId) ==
    [sets EXCEPT ![emoji] = arrayUnion(@, userId)]

\* reactToMessage: one update of the message.
reactToMessage(userId, emoji) ==
    /\ messageReactions' = addToEmojiSet(messageReactions, emoji, userId)
    /\ reacted' = Reacted("message", "update", "message", userId, emoji,
                          messageReactions)
    /\ MessageOnly

\* The users react to the post, through either revision of the service.
PostReactionNext ==
    \/ \E u \in Users, e \in Emojis : reactToPost(u, e)
    \/ \E u \in Users, e \in Emojis : reactToPostOverwrite(u, e)

PostReactionSpec == Init /\ [][PostReactionNext]_vars

\* The users react to the comments of the post.
CommentReactionNext ==
    \/ \E c \in CommentIds, u \in Users, e \in Emojis : reactToComment(c, u, e)
    \/ \E c \in CommentIds, u \in Users, e \in Emojis : reactToCommentOverwrite(c, u, e)

CommentReactionSpec == Init /\ [][CommentReactionNext]_vars

\* The users react to the message.
MessageReactionNext == \E u \in Users, e \in Emojis : reactToMessage(u, e)

MessageReactionSpec == Init /\ [][MessageReactionNext]_vars

\* ============================================== the comments of the post
\* What one run of a transaction body does: it queues a write of the
\* document ("wrote"), returns without one ("returned"), or throws ("threw").
Wrote(d) == [kind |-> "wrote", doc |-> d]
Returned(d) == [kind |-> "returned", doc |-> d]
Threw(d) == [kind |-> "threw", doc |-> d]

\* The bound of the model on the transactions started.
MaxOps == 2
\* The bound of the model on how far commentCount falls below zero.
MaxDrift == 1

\* The texts an edit writes.
NewTexts == {"edited"}

\* The body of reactToPost.
reactToPostBody(d, userId, newReaction) ==
    Wrote([d EXCEPT !.reactions = toggleReaction(@, userId, newReaction)])

\* The body of reactToComment: "Comment not found!" when no comment has the id.
reactToCommentBody(d, commentId, userId, newReaction) ==
    LET commentIndex == findIndex(d.comments, commentId) IN
    IF commentIndex = 0 THEN Threw(d)
    ELSE Wrote([d EXCEPT !.comments[commentIndex].reactions =
                            toggleReaction(@, userId, newReaction)])

\* The body of editComment: the text of the comment is replaced (updatedAt,
\* a time, is left out of the model).
editCommentBody(d, commentId, newText) ==
    LET commentIndex == findIndex(d.comments, commentId) IN
    IF commentIndex = 0 THEN Threw(d)
    ELSE Wrote([d EXCEPT !.comments[commentIndex].text = newText])

\* comments[commentIndex] after the soft delete.
softDeleted(c) ==
    [c EXCEPT !.isDeleted = TRUE, !.text = NoText, !.audioUrl = NoUrl,
              !.imageUrl = NoUrl, !.reactions = NoReactions]

\* The body of deleteComment: the soft delete; it returns without a write
\* when no comment has the id.
deleteCommentBody(d, commentId) ==
    LET commentIndex == findIndex(d.comments, commentId) IN
    IF commentIndex = 0 THEN Returned(d)
    ELSE Wrote([d EXCEPT !.comments[commentIndex] = softDeleted(@)])

\* comments.filter(c => c.id !== commentId)
RECURSIVE filterOut(_, _)
filterOut(all, commentId) ==
    IF all = <<>> THEN <<>>
    ELSE IF Head(all).id = commentId THEN filterOut(Tail(all), commentId)
    ELSE <<Head(all)>> \o filterOut(Tail(all), commentId)

\* The body of deleteComment of the other revision: the comment is taken out
\* of the array and commentCount falls by one, whether the array held it or not.
deleteCommentFilterBody(d, commentId) ==
    Wrote([d EXCEPT !.comments = filterOut(@, commentId),
                    !.commentCount = @ - 1])

\* poll.options.some(opt => opt.votedBy.includes(userId))
hasVotedFirst(poll, userId) == userId \in Range(poll[1].votedBy)

hasVoted(poll, userId) ==
    \E k \in 1..Len(poll) : userId \in Range(poll[k].votedBy)

\* poll.options.map(...): the option at optionIndex, counted from 0, gets one
\* more vote and the voter at the end of votedBy.
updatedOptions(poll, optionIndex, userId) ==
    [k \in 1..Len(poll) |->
        IF k = optionIndex + 1
        THEN [votes |-> poll[k].votes + 1, votedBy |-> Append(poll[k].votedBy, userId)]
        ELSE poll[k]]

\* The body of voteOnPoll.
voteOnPollBody(d, userId, optionIndex) ==
    IF hasVoted(d.poll, userId) THEN Returned(d)
    ELSE IF optionIndex < 0 \/ optionIndex >= Len(d.poll) THEN Threw(d)
    ELSE Wrote([d EXCEPT !.poll = updatedOptions(@, optionIndex, userId)])

\* The body of the transaction op on the document d.
TransactionBody(op, d) ==
    CASE op.name = "reactToPost" -> reactToPostBody(d, op.userId, op.args)
      [] op.name = "reactToComment" ->
            reactToCommentBody(d, op.commentId, op.userId, op.args)
      [] op.name = "editComment" -> editCommentBody(d, op.commentId, op.args)
      [] op.name = "deleteComment" -> deleteCommentBody(d, op.commentId)
      [] op.name = "voteOnPoll" -> voteOnPollBody(d, op.userId, op.args)

\* The write of the document.
WritePost(d) ==
    /\ reactions' = d.reactions
    /\ comments' = d.comments
    /\ post' = [commentCount |-> d.commentCount, poll |-> d.poll,
                bestAnswerId |-> d.bestAnswerId]

ThreadOnly ==
    UNCHANGED <<handshakeVars, blockedUserIds, arrayVars, friendsVars,
                conversationRuns, messageReactions, reacted, targetingRun, snapshotRuns, screenVars, authVars>>

Op(name, revision, userId, commentId, args) ==
    [name |-> name, revision |-> revision, userId |-> userId,
     commentId |-> commentId, args |-> args]

\* One operation whose only step on the store is one write, or one
\* transaction that nothing overlaps: the document is written as the outcome
\* says. The observer notes the operation, the document before it and the
\* uploads it started, and applies the operation to its own document too
\* (next is the result).
Alone(op, outcome, uploads, next) ==
    /\ WritePost(outcome.doc)
    /\ lastOp' = [op |-> op, before |-> PostDoc, read |-> PostDoc, attempts |-> 1,
                  outcome |-> outcome.kind, uploads |-> uploads]
    /\ serial' = next
    /\ UNCHANGED <<transactions, started>>
    /\ ThreadOnly

\* A transaction that no other write of the post overlaps: its body runs
\* once on the document as it is and its write, if any, is committed.
runAlone(op) == Alone(op, TransactionBody(op, PostDoc), 0, TransactionBody(op, serial).doc)

\* db.collection('posts').doc().id: an id that no comment was given before.
newId == CHOOSE id \in CommentIds : id \notin minted

\* user.commentingSuspendedUntil && new Date(user.commentingSuspendedUntil) >
\* new Date(); 0 is the timestamp that is not set.
isSuspended(commentingSuspendedUntil, now) ==
    commentingSuspendedUntil # 0 /\ commentingSuspendedUntil > now

\* The content createComment accepts: an audio blob with a duration, an
\* image file or a text; without any it throws "Comment must have content."
hasContent(text, imageFile, audioBlob, duration) ==
    (audioBlob /\ duration # 0) \/ imageFile \/ text # NoText

\* newComment of createComment, by the content given: the audio when a blob
\* and a duration are given, else the image, else the text.
newComment(id, userId, text, imageFile, audioBlob, duration) ==
    IF audioBlob /\ duration # 0
    THEN [id |-> id, author |-> userId, type |-> "audio", text |-> NoText,
          imageUrl |-> NoUrl, audioUrl |-> "url", isDeleted |-> FALSE,
          reactions |-> NoReactions]
    ELSE IF imageFile
    THEN [id |-> id, author |-> userId, type |-> "image", text |-> NoText,
          imageUrl |-> "url", audioUrl |-> NoUrl, isDeleted |-> FALSE,
          reactions |-> NoReactions]
    ELSE TextComment(id, userId, text)

\* comments: arrayUnion(newComment), commentCount: increment(1)
appendedUncounted(d, c) ==
    [d EXCEPT !.comments = IF c \in Range(@) THEN @ ELSE Append(@, c)]

appended(d, c) ==
    [d EXCEPT !.comments = IF c \in Range(@) THEN @ ELSE Append(@, c),
              !.commentCount = @ + 1]

\* createComment of services/firebaseService.ts. A suspended user gets null;
\* a comment with no content throws; otherwise the media, if any, is
\* uploaded and then one update of the post appends the comment and
\* increments commentCount.
createComment(userId, commentingSuspendedUntil, now, text, imageFile, audioBlob, duration) ==
    /\ minted # CommentIds
    /\ LET c == newComment(newId, userId, text, imageFile, audioBlob, duration)
           op == Op("createComment", "transaction", userId, newId,
                    [commentingSuspendedUntil |-> commentingSuspendedUntil,
                     now |-> now, text |-> text, imageFile |-> imageFile,
                     audioBlob |-> audioBlob, duration |-> duration])
       IN  IF isSuspended(commentingSuspendedUntil, now)
           THEN Alone(op, Returned(PostDoc), 0, serial) /\ UNCHANGED minted
           ELSE IF ~hasContent(text, imageFile, audioBlob, duration)
           THEN Alone(op, Threw(PostDoc), 0, serial) /\ UNCHANGED minted
           ELSE /\ Alone(op, Wrote(appended(PostDoc, c)),
                         IF c.type = "text" THEN 0 ELSE 1, appended(serial, c))
                /\ minted' = minted \cup {newId}

\* createComment of the other revision: the comment data is spread into the
\* new comment and one update of the post appends it and increments
\* commentCount; the suspension of the user is not looked at.
createCommentSpread(userId, commentingSuspendedUntil, now, text) ==
    /\ minted # CommentIds
    /\ LET op == Op("createComment", "update", userId, newId,
                    [commentingSuspendedUntil |-> commentingSuspendedUntil,
                     now |-> now, text |-> text, imageFile |-> FALSE,
                     audioBlob |-> FALSE, duration |-> 0])
       IN  Alone(op, Wrote(appended(PostDoc, TextComment(newId, userId, text))), 0,
                 appended(serial, TextComment(newId, userId, text)))
    /\ minted' = minted \cup {newId}

\* editComment, alone.
editComment(commentId, newText) ==
    /\ runAlone(Op("editComment", "transaction", NoUser, commentId, newText))
    /\ UNCHANGED minted

\* deleteComment of services/firebaseService.ts, alone.
deleteComment(commentId) ==
    /\ runAlone(Op("deleteComment", "transaction", NoUser, commentId, "none"))
    /\ UNCHANGED minted

\* deleteComment of the other revision, alone.
deleteCommentFilter(commentId) ==
    /\ post.commentCount + MaxDrift > 0
    /\ Alone(Op("deleteComment", "update", NoUser, commentId, "none"),
             deleteCommentFilterBody(PostDoc, commentId), 0,
             deleteCommentFilterBody(serial, commentId).doc)
    /\ UNCHANGED minted

\* reactToComment on the post of this section, alone.
reactToCommentAlone(commentId, userId, newReaction) ==
    /\ runAlone(Op("reactToComment", "transaction", userId, commentId, newReaction))
    /\ UNCHANGED minted

\* voteOnPoll of services/firebaseService.ts, alone.
voteOnPoll(userId, optionIndex) ==
    /\ runAlone(Op("voteOnPoll", "transaction", userId, NoComment, optionIndex))
    /\ UNCHANGED minted

\* voteOnPoll of the other revision: it returns null.
voteOnPollStub(userId, optionIndex) ==
    /\ Alone(Op("voteOnPoll", "update", userId, NoComment, optionIndex),
             Returned(PostDoc), 0, serial)
    /\ UNCHANGED minted

\* markBestAnswer of services/firebaseService.ts: null for a user who is not
\* the author of the post, a throw for a comment the post does not have,
\* otherwise one update of bestAnswerId.
markBestAnswer(userId, commentId) ==
    /\ Alone(Op("markBestAnswer", "transaction", userId, commentId, "none"),
             IF PostAuthor # userId THEN Returned(PostDoc)
             ELSE IF findIndex(comments, commentId) = 0 THEN Threw(PostDoc)
             ELSE Wrote([PostDoc EXCEPT !.bestAnswerId = commentId]), 0,
             IF PostAuthor # userId \/ findIndex(serial.comments, commentId) = 0
             THEN serial ELSE [serial EXCEPT !.bestAnswerId = commentId])
    /\ UNCHANGED minted

\* markBestAnswer of the other revision: one update of bestAnswerId.
markBestAnswerUpdate(userId, commentId) ==
    /\ Alone(Op("markBestAnswer", "update", userId, commentId, "none"),
             Wrote([PostDoc EXCEPT !.bestAnswerId = commentId]), 0,
             [serial EXCEPT !.bestAnswerId = commentId])
    /\ UNCHANGED minted

\* The comments a call may name: those of the post and one it never had.
AnyCommentIds == CommentIds \cup {"c9"}

\* Comments are written, edited, reacted to and deleted, one call after
\* another, through either revision of the service.
CommentNext ==
    \/ \E u \in {"b", "c"}, imageFile \in BOOLEAN :
         createComment(u, 0, MaxTime, IF imageFile THEN NoText ELSE "hi",
                       imageFile, FALSE, 0)
    \/ \E c \in CommentIds, t \in NewTexts : editComment(c, t)
    \/ \E c \in AnyCommentIds : deleteComment(c)
    \/ \E c \in AnyCommentIds : deleteCommentFilter(c)
    \/ \E c \in CommentIds, e \in Emojis : reactToCommentAlone(c, PostAuthor, e)

CommentSpec == InitNewPost /\ [][CommentNext]_vars

\* ------------------------------------------- transactions that overlap
\* The store commits a transaction only when the document it read was not
\* written since: here, when the document is as it was read.
neverConflicts(read, current) == FALSE

conflicts(read, current) == read # current

\* The document after an attempt was aborted: as it was, the write the
\* attempt queued is dropped.
afterAbortWritten(current, attempted) == attempted

afterAbort(current, attempted) == current

\* db.runTransaction and the transaction.get of the first attempt.
transactionGet(s, op) ==
    /\ transactions[s].pc = "idle"
    /\ started < MaxOps
    /\ transactions' = [transactions EXCEPT ![s] =
            [pc |-> "got", op |-> op, read |-> PostDoc, attempts |-> 1]]
    /\ started' = started + 1
    /\ UNCHANGED <<reactions, comments, post, minted, lastOp, serial>>
    /\ ThreadOnly

\* The body throws on what it read: the transaction is rejected, the catch
\* of the caller logs it, and nothing is written.
transactionThrow(s) ==
    LET t == transactions[s] IN
    /\ t.pc = "got"
    /\ TransactionBody(t.op, t.read).kind = "threw"
    /\ transactions' = [transactions EXCEPT ![s] = IdleTransaction]
    /\ UNCHANGED <<reactions, comments, post, minted, started, lastOp, serial>>
    /\ ThreadOnly

\* The body ran on what it read and the document was not written since: the
\* store commits the write the body queued, if any.
transactionCommit(s) ==
    LET t == transactions[s]
        outcome == TransactionBody(t.op, t.read)
    IN  /\ t.pc = "got"
        /\ outcome.kind # "threw"
        /\ ~conflicts(t.read, PostDoc)
        /\ WritePost(outcome.doc)
        /\ transactions' = [transactions EXCEPT ![s] = IdleTransaction]
        /\ lastOp' = [op |-> t.op, before |-> PostDoc, read |-> t.read,
                      attempts |-> t.attempts, outcome |-> outcome.kind,
                      uploads |-> 0]
        /\ serial' = TransactionBody(t.op, serial).doc
        /\ UNCHANGED <<minted, started>>
        /\ ThreadOnly

\* The document was written since it was read: the store aborts the attempt
\* and runs the body again, on the document as it is now.
transactionRetry(s) ==
    LET t == transactions[s]
        outcome == TransactionBody(t.op, t.read)
    IN  /\ t.pc = "got"
        /\ outcome.kind # "threw"
        /\ conflicts(t.read, PostDoc)
        /\ WritePost(afterAbort(PostDoc, outcome.doc))
        /\ transactions' = [transactions EXCEPT ![s] =
                [t EXCEPT !.read = afterAbort(PostDoc, outcome.doc),
                          !.attempts = @ + 1]]
        /\ UNCHANGED <<minted, started, lastOp, serial>>
        /\ ThreadOnly

\* The user of a session.
userOf(s) == IF s = "s1" THEN "a" ELSE "b"

\* Two users react, edit, delete and vote in transactions that overlap,
\* while comments are created.
TransactionNext ==
    \/ createComment("c", 0, MaxTime, "hi", FALSE, FALSE, 0)
    \/ \E s \in Sessions, e \in Emojis :
         transactionGet(s, Op("reactToPost", "transaction", userOf(s), NoComment, e))
    \/ \E s \in Sessions, c \in CommentIds, e \in Emojis :
         transactionGet(s, Op("reactToComment", "transaction", userOf(s), c, e))
    \/ \E s \in Sessions, c \in CommentIds, t \in NewTexts :
         transactionGet(s, Op("editComment", "transaction", userOf(s), c, t))
    \/ \E s \in Sessions, c \in CommentIds :
         transactionGet(s, Op("deleteComment", "transaction", userOf(s), c, "none"))
    \/ \E s \in Sessions, i \in 0..Len(post.poll) :
         transactionGet(s, Op("voteOnPoll", "transaction", userOf(s), NoComment, i))
    \/ \E s \in Sessions : transactionThrow(s)
    \/ \E s \in Sessions : transactionCommit(s)
    \/ \E s \in Sessions : transactionRetry(s)

TransactionSpec == InitNewPost /\ [][TransactionNext]_vars

\* handlePostComment of UserApp.tsx: nothing is sent for an empty text or for
\* a user who is suspended; otherwise createComment is called with the text.
handlePostComment(userId, commentingSuspendedUntil, now, text) ==
    IF text = NoText \/ isSuspended(commentingSuspendedUntil, now)
    THEN /\ Alone(Op("handlePostComment", "transaction", userId, NoComment,
                     [commentingSuspendedUntil |-> commentingSuspendedUntil,
                      now |-> now, text |-> text, imageFile |-> FALSE,
                      audioBlob |-> FALSE, duration |-> 0]),
                  Returned(PostDoc), 0, serial)
         /\ UNCHANGED minted
    ELSE createComment(userId, commentingSuspendedUntil, now, text, FALSE, FALSE, 0)

\* The texts of a comment: none and one.
Texts == {NoText, "hi"}
\* The durations of an audio comment: none and one.
Durations == {0, 1}

\* Comments are created, with any content and by users suspended or not,
\* through either revision of the service or through the handler of the app.
CreateCommentNext ==
    \/ \E u \in Users, until \in 0..MaxTime, now \in 1..MaxTime, text \in Texts,
          imageFile \in BOOLEAN, audioBlob \in BOOLEAN, duration \in Durations :
         createComment(u, until, now, text, imageFile, audioBlob, duration)
    \/ \E u \in Users, until \in 0..MaxTime, now \in 1..MaxTime :
         createCommentSpread(u, until, now, "hi")
    \/ \E u \in Users, until \in 0..MaxTime, now \in 1..MaxTime, text \in Texts :
         handlePostComment(u, until, now, text)

CreateCommentSpec == InitNewPost /\ [][CreateCommentNext]_vars

\* The users vote on the poll, with any option index, through either
\* revision of the service.
PollNext ==
    \/ \E u \in Users, i \in -1..Len(post.poll) : voteOnPoll(u, i)
    \/ \E u \in Users, i \in -1..Len(post.poll) : voteOnPollStub(u, i)

PollSpec == Init /\ [][PollNext]_vars

\* Comments are written and the users mark comments as the best answer,
\* through either revision of the service.
BestAnswerNext ==
    \/ \E u \in {"b", "c"} : createComment(u, 0, MaxTime, "hi", FALSE, FALSE, 0)
    \/ \E u \in Users, c \in AnyCommentIds : markBestAnswer(u, c)
    \/ \E u \in Users, c \in AnyCommentIds : markBestAnswerUpdate(u, c)

BestAnswerSpec == InitNewPost /\ [][BestAnswerNext]_vars

\* ===================================================== campaign targeting
\* Strings are sequences of characters; a string that is undefined is the
\* empty one (both are falsy). An age that is undefined is 0 (falsy too).

\* String.prototype.toLowerCase, on the letters of the model.
lowerOf(ch) ==
    CASE ch = "A" -> "a" [] ch = "D" -> "d" [] ch = "E" -> "e"
      [] ch = "S" -> "s" [] ch = "T" -> "t" [] OTHER -> ch

toLowerCase(str) == [i \in 1..Len(str) |-> lowerOf(str[i])]

RECURSIVE trimStart(_)
trimStart(str) ==
    IF str # Empty /\ Head(str) = " " THEN trimStart(Tail(str)) ELSE str

RECURSIVE trimEnd(_)
trimEnd(str) ==
    IF str # Empty /\ str[Len(str)] = " "
    THEN trimEnd(SubSeq(str, 1, Len(str) - 1)) ELSE str

\* String.prototype.trim
trim(str) == trimEnd(trimStart(str))

\* String.prototype.includes
includes(str, part) ==
    \E i \in 0..(Len(str) - Len(part)) : SubSeq(str, i + 1, i + Len(part)) = part

\* String.prototype.split, by '-'
RECURSIVE split(_)
split(str) ==
    IF \E i \in 1..Len(str) : str[i] = "-"
    THEN LET i == CHOOSE j \in 1..Len(str) :
                    str[j] = "-" /\ \A k \in 1..(j - 1) : str[k] # "-"
         IN  <<SubSeq(str, 1, i - 1)>> \o split(SubSeq(str, i + 1, Len(str)))
    ELSE <<str>>

DigitChars == <<"0", "1", "2", "3", "4", "5", "6", "7", "8", "9">>
isDigit(ch) == \E d \in 1..Len(DigitChars) : DigitChars[d] = ch
digitOf(ch) == (CHOOSE d \in 1..Len(DigitChars) : DigitChars[d] = ch) - 1

\* A number of the script: NaN, or an integer.
NaN == [nan |-> TRUE, n |-> 0]
Num(n) == [nan |-> FALSE, n |-> n]

RECURSIVE leadingDigits(_, _)
leadingDigits(str, acc) ==
    IF str = Empty \/ ~isDigit(Head(str)) THEN acc
    ELSE leadingDigits(Tail(str), 10 * acc + digitOf(Head(str)))

\* parseInt(part, 10) of a part that holds no sign: the digits after the
\* leading blanks, up to the first character that is not a digit; NaN when
\* there is none.
parseInt(str) ==
    LET t == trimStart(str) IN
    IF t = Empty \/ ~isDigit(Head(t)) THEN NaN ELSE Num(leadingDigits(t, 0))

\* x < y and x > y of the script: false when either is NaN.
lessThan(x, y) == ~x.nan /\ ~y.nan /\ x.n < y.n
greaterThan(x, y) == ~x.nan /\ ~y.nan /\ x.n > y.n

\* const [min, max] = ageRange.split('-').map(part => parseInt(part, 10)):
\* a part that is missing is undefined, NaN in a comparison.
partOf(ageRange, k) ==
    IF k <= Len(split(ageRange)) THEN parseInt(split(ageRange)[k]) ELSE NaN

\* interests.some(interest => userBioLower.includes(interest.toLowerCase()))
hasMatchingInterest(interests, bio) ==
    \E k \in 1..Len(interests) :
        includes(toLowerCase(bio), toLowerCase(interests[k]))

matchesAbsentLocation(campaign, user) ==
    IF ~campaign.hasTargeting THEN TRUE
    ELSE LET location == campaign.targeting.location
             gender == campaign.targeting.gender
             ageRange == campaign.targeting.ageRange
             interests == campaign.targeting.interests
         IN  IF /\ user.currentCity # Empty
                /\ trim(toLowerCase(location)) # trim(toLowerCase(user.currentCity))
             THEN FALSE
             ELSE IF /\ gender # "" /\ gender # "All" /\ user.gender # ""
                     /\ gender # user.gender
             THEN FALSE
             ELSE IF /\ ageRange # Empty /\ user.age # 0
                     /\ \/ lessThan(Num(user.age), partOf(ageRange, 1))
                        \/ greaterThan(Num(user.age), partOf(ageRange, 2))
             THEN FALSE
             ELSE IF /\ Len(interests) > 0 /\ user.bio # Empty
                     /\ ~hasMatchingInterest(interests, user.bio)
             THEN FALSE
             ELSE TRUE

\* matchesTargeting: a campaign without targeting matches; otherwise each of
\* location, gender, age range and interests that is set in the rule, and
\* whose counterpart is set in the profile, must pass.
matchesTargeting(campaign, user) ==
    IF ~campaign.hasTargeting THEN TRUE
    ELSE LET location == campaign.targeting.location
             gender == campaign.targeting.gender
             ageRange == campaign.targeting.ageRange
             interests == campaign.targeting.interests
         IN  IF /\ location # Empty /\ user.currentCity # Empty
                /\ trim(toLowerCase(location)) # trim(toLowerCase(user.currentCity))
             THEN FALSE
             ELSE IF /\ gender # "" /\ gender # "All" /\ user.gender # ""
                     /\ gender # user.gender
             THEN FALSE
             ELSE IF /\ ageRange # Empty /\ user.age # 0
                     /\ \/ lessThan(Num(user.age), partOf(ageRange, 1))
                        \/ greaterThan(Num(user.age), partOf(ageRange, 2))
             THEN FALSE
             ELSE IF /\ Len(interests) > 0 /\ user.bio # Empty
                     /\ ~hasMatchingInterest(interests, user.bio)
             THEN FALSE
             ELSE TRUE

\* The rules and the profiles the function is applied to.
Locations == {Empty, <<"D", "h">>, <<" ", "d", "h", " ">>, <<"S", "y">>}
RuleGenders == {"", "All", "Male", "Female"}
AgeRanges == {Empty, <<"2", "-", "5">>, <<"1", "8", "-", "2", "5">>, <<"5">>, <<"x">>}
InterestLists == {<<>>, << <<"t", "e", "a">> >>, << <<"T", "e", "a">>, <<"a", "r", "t">> >>}
Cities == {Empty, <<"d", "h">>, <<"S", "y", " ">>}
Genders == {"", "Male", "Female"}
Ages == {0, 1, 3, 6, 20}
Bios == {Empty, <<"T", "E", "A">>, <<"a", "r", "t", "s">>, <<"x">>}

Targetings ==
    [location : Locations, gender : RuleGenders, ageRange : AgeRanges,
     interests : InterestLists]

Campaigns ==
    {[hasTargeting |-> FALSE, targeting |-> Untargeted.campaign.targeting]}
    \cup {[hasTargeting |-> TRUE, targeting |-> t] : t \in Targetings}

Profiles == [currentCity : Cities, gender : Genders, age : Ages, bio : Bios]

\* Any campaign and any profile, before the function is applied.
InitTargeting ==
    /\ SignedUp
    /\ comments = <<>>
    /\ post = NewPost
    /\ minted = {}
    /\ serial = PostDoc
    /\ \E c \in Campaigns, u \in Profiles :
         targetingRun = [campaign |-> c, user |-> u, applied |-> FALSE,
                         result |-> FALSE]

\* allCampaigns.filter(c => matchesTargeting(c, user)), for one campaign.
targetedCampaigns ==
    /\ ~targetingRun.applied
    /\ targetingRun' =
         [targetingRun EXCEPT !.applied = TRUE,
            !.result = matchesTargeting(targetingRun.campaign, targetingRun.user)]
    /\ UNCHANGED <<handshakeVars, blockedUserIds, arrayVars, friendsVars,
                   conversationRuns, reactionVars, threadVars, snapshotRuns, screenVars, authVars>>

TargetingNext == targetedCampaigns

TargetingSpec == InitTargeting /\ [][TargetingNext]_vars

\* ======================= listenToFriends and listenToFeedPosts, by snapshot
\* listenToFriends("a", callback) and listenToFeedPosts("a", callback) of
\* services/firebaseService.ts: every push starts an asynchronous handler
\* that awaits one read and then calls back. Handlers of successive pushes
\* overlap. The observer numbers the pushes and notes, for each callback,
\* the push it answers.
SnapshotsOnly ==
    UNCHANGED <<handshakeVars, blockedUserIds, arrayVars, friendsVars,
                conversationRuns, reactionVars, threadVars, targetingRun,
                screenVars, authVars>>

\* callback(out), called by the handler of push n of a subscription.
Called(kind, n, out) ==
    [snapshotRuns EXCEPT !.last[kind] = n, !.out[kind] = out, !.called = kind,
                         !.inOrder = n > snapshotRuns.last[kind]]

\* A handler takes the first slot that holds no running handler.
FirstIdleHandler(r) ==
    /\ snapshotRuns.runs[r].pc = "idle"
    /\ \A q \in Runs : q < r => snapshotRuns.runs[q].pc # "idle"

\* A push of users/a to listenToFriends: callback([]) at once when the
\* document does not exist or has no friend, otherwise the handler awaits
\* getUsersByIds(friendIds).
friendsSnapshot(r, exists, ids) ==
    /\ FirstIdleHandler(r)
    /\ snapshotRuns.pushed < MaxParentPushes
    /\ LET n == snapshotRuns.pushed + 1 IN
       snapshotRuns' =
         IF ~exists \/ ids = {}
         THEN [Called("friends", n, {}) EXCEPT !.pushed = n]
         ELSE [snapshotRuns EXCEPT !.pushed = n,
                 !.runs[r] = [pc |-> "fetch", kind |-> "friends", push |-> n,
                              ids |-> ids]]
    /\ SnapshotsOnly

\* getUsersByIds resolves, with the profiles of the ids (every user keeps
\* the document sign-up created), and the handler calls back.
friendsFetched(r) ==
    LET run == snapshotRuns.runs[r] IN
    /\ run.pc = "fetch"
    /\ snapshotRuns' =
         [Called("friends", run.push, run.ids) EXCEPT !.runs[r] = IdleHandler]
    /\ SnapshotsOnly

\* A push of the posts query to listenToFeedPosts, the posts by their
\* authors: the handler awaits the read of users/a.
feedSnapshot(r, authors) ==
    /\ FirstIdleHandler(r)
    /\ snapshotRuns.pushed < MaxParentPushes
    /\ snapshotRuns' =
         [snapshotRuns EXCEPT !.pushed = @ + 1,
            !.runs[r] = [pc |-> "userDoc", kind |-> "feed",
                         push |-> snapshotRuns.pushed + 1, ids |-> authors]]
    /\ SnapshotsOnly

\* feedPosts.filter(...), for posts visible to friends: not by a blocked
\* author, and by a or by a friend.
filtered(authors, friends, blocked) ==
    {p \in authors : p \notin blocked /\ (p = "a" \/ p \in friends)}

\* The read of users/a resolves and the handler calls back with the posts
\* of its snapshot, filtered.
feedUserRead(r, friends, blocked) ==
    LET run == snapshotRuns.runs[r] IN
    /\ run.pc = "userDoc"
    /\ snapshotRuns' =
         [Called("feed", run.push, filtered(run.ids, friends, blocked))
            EXCEPT !.runs[r] = IdleHandler]
    /\ SnapshotsOnly

SnapshotsNext ==
    \/ \E r \in Runs, exists \in BOOLEAN, ids \in SUBSET FriendPool :
         friendsSnapshot(r, exists, ids)
    \/ \E r \in Runs : friendsFetched(r)
    \/ \E r \in Runs, authors \in SUBSET {"a", "b"} : feedSnapshot(r, authors)
    \/ \E r \in Runs, friends \in SUBSET {"b"}, blocked \in SUBSET {"b"} :
         feedUserRead(r, friends, blocked)

SnapshotsSpec == Init /\ [][SnapshotsNext]_vars

\* Two users vote on the poll in transactions that overlap (also two of one
\* user), and a third votes in a transaction alone.
PollRaceNext ==
    \/ \E s \in Sessions, u \in {"a", "b"}, i \in 0..Len(post.poll) :
         transactionGet(s, Op("voteOnPoll", "transaction", u, NoComment, i))
    \/ \E i \in 0..(Len(post.poll) - 1) : voteOnPoll("c", i)
    \/ \E s \in Sessions : transactionThrow(s)
    \/ \E s \in Sessions : transactionCommit(s)
    \/ \E s \in Sessions : transactionRetry(s)

PollRaceSpec == Init /\ [][PollRaceNext]_vars

\* ---------------------------------------------------------- MessageScreen
\* The screen of the chats of user "a" (components/MessageScreen.tsx), the
\* listener of a chat's messages and markMessagesAsRead.
ScreenOnly ==
    UNCHANGED <<handshakeVars, blockedUserIds, arrayVars, friendsVars,
                conversationRuns, reactionVars, threadVars, targetingRun,
                snapshotRuns, authVars>>

MaxMarks == 3
MaxMessages == 1

\* return () => unsubscribe(): the cleanup of the effect that ran last.
unsubscribed(screen) ==
    [screen EXCEPT !.subscription = Unsubscribed,
                   !.listeners = IF screen.rendered.chatId = NoChat
                                 THEN @ ELSE @ - 1]

\* The effect of the message subscription, run after the commit of a render
\* with the prop chatId and the state isLoading because one of the two is
\* not what the render before had: the cleanup of the last run, then
\* setIsLoading(true) and listenToMessages(chatId, ...), whose callback
\* closes over the isLoading of this render.
subscriptionEffect(screen, chatId, isLoading) ==
    [unsubscribed(screen) EXCEPT
        !.isLoading = TRUE,
        !.rendered = [chatId |-> chatId, isLoading |-> isLoading],
        !.subscription = [chatId |-> chatId, isLoading |-> isLoading,
                          pushed |-> FALSE, messages |-> {}],
        !.listeners = @ + 1]

\* The screen mounts for a chat: useState(true), the first render and its
\* effect.
openScreen(chatId) ==
    /\ ~messageScreen.mounted
    /\ messageScreen' =
         subscriptionEffect([Closed EXCEPT !.mounted = TRUE, !.chatId = chatId,
                                           !.isLoading = TRUE],
                            chatId, TRUE)
    /\ UNCHANGED <<chatMessages, markRuns>>
    /\ ScreenOnly

\* The screen gets another recipient: the render with the new chatId and its
\* effect. The count of the calls of markMessagesAsRead starts again.
openChat(chatId) ==
    /\ messageScreen.mounted
    /\ chatId # messageScreen.chatId
    /\ messageScreen' =
         subscriptionEffect([messageScreen EXCEPT !.chatId = chatId, !.marks = 0],
                            chatId, messageScreen.isLoading)
    /\ UNCHANGED <<chatMessages, markRuns>>
    /\ ScreenOnly

\* The render after a change of isLoading: isLoading is among the
\* dependencies of the effect, which runs again.
renderScreen ==
    /\ messageScreen.mounted
    /\ messageScreen.isLoading # messageScreen.rendered.isLoading
    /\ messageScreen' =
         subscriptionEffect(messageScreen, messageScreen.chatId,
                            messageScreen.isLoading)
    /\ UNCHANGED <<chatMessages, markRuns>>
    /\ ScreenOnly

\* The screen unmounts: the cleanup of the effect.
closeScreen ==
    /\ messageScreen.mounted
    /\ messageScreen' = [Closed EXCEPT !.listeners = unsubscribed(messageScreen).listeners]
    /\ UNCHANGED <<chatMessages, markRuns>>
    /\ ScreenOnly

FirstIdleMark(r) ==
    /\ markRuns[r].pc = "idle"
    /\ \A q \in Runs : q < r => markRuns[q].pc # "idle"

\* listenToMessages: the store pushes the messages of the chat to the
\* listener, first when it subscribes and then when they change. The
\* callback keeps them and, when the isLoading it closed over is true, calls
\* markMessagesAsRead (not awaited) and setIsLoading(false).
messagesSnapshot ==
    LET sub == messageScreen.subscription
        now == chatMessages[sub.chatId].unread
    IN  /\ messageScreen.mounted
        /\ messageScreen.listeners > 0
        /\ ~sub.pushed \/ sub.messages # now
        /\ IF sub.isLoading
           THEN /\ messageScreen.marks < MaxMarks
                /\ \E r \in Runs :
                     /\ FirstIdleMark(r)
                     /\ markRuns' = [markRuns EXCEPT ![r] =
                            [pc |-> "query", chatId |-> sub.chatId, docs |-> {}]]
                /\ messageScreen' =
                     [messageScreen EXCEPT !.subscription.pushed = TRUE,
                                           !.subscription.messages = now,
                                           !.marks = @ + 1,
                                           !.isLoading = FALSE]
           ELSE /\ messageScreen' =
                     [messageScreen EXCEPT !.subscription.pushed = TRUE,
                                           !.subscription.messages = now]
                /\ UNCHANGED markRuns
        /\ UNCHANGED chatMessages
        /\ ScreenOnly

\* sendMessage by the other participant of the chat: one more message to
\* the current user, with read: false.
sendMessage(chatId) ==
    /\ chatMessages[chatId].sent < MaxMessages
    /\ chatMessages' =
         [chatMessages EXCEPT ![chatId] =
            [sent |-> @.sent + 1, unread |-> @.unread \cup {@.sent + 1}]]
    /\ UNCHANGED <<messageScreen, markRuns>>
    /\ ScreenOnly

\* markMessagesAsRead: where('recipientId', '==', userId)
\* .where('read', '==', false).get()
markQuery(r) ==
    /\ markRuns[r].pc = "query"
    /\ markRuns' = [markRuns EXCEPT ![r].pc = "commit",
                                    ![r].docs = chatMessages[markRuns[r].chatId].unread]
    /\ UNCHANGED <<messageScreen, chatMessages>>
    /\ ScreenOnly

\* markMessagesAsRead: await batch.commit(), read: true on every message
\* the query found.
markCommit(r) ==
    /\ markRuns[r].pc = "commit"
    /\ chatMessages' =
         [chatMessages EXCEPT ![markRuns[r].chatId].unread = @ \ markRuns[r].docs]
    /\ markRuns' = [markRuns EXCEPT ![r] = IdleMark]
    /\ UNCHANGED messageScreen
    /\ ScreenOnly

ScreenNext ==
    \/ \E c \in Chats : openScreen(c)
    \/ \E c \in Chats : openChat(c)
    \/ renderScreen
    \/ closeScreen
    \/ messagesSnapshot
    \/ \E c \in Chats : sendMessage(c)
    \/ \E r \in Runs : markQuery(r)
    \/ \E r \in Runs : markCommit(r)

ScreenSpec == Init /\ [][ScreenNext]_vars

\* ------------------------------------------------------- onAuthStateChanged
\* The handler of the auth state (services/firebaseService.ts), the callback
\* UserApp gives it and the listener of users/{id} that callback subscribes.
AuthOnly ==
    UNCHANGED <<blockedUserIds, arrayVars, friendsVars, conversationRuns,
                reactionVars, threadVars, targetingRun, snapshotRuns, screenVars>>

\* userProfile && !userProfile.isDeactivated && !userProfile.isBanned, of a
\* profile that exists.
inGoodStanding(userProfile) ==
    ~userProfile.isDeactivated /\ ~userProfile.isBanned

\* What the handler or the listener hands over for the account uid, with
\* what users/{uid} holds at that moment.
Profile(uid, fallback) ==
    [id |-> uid, fallback |-> fallback, barred |-> ~inGoodStanding(accounts[uid])]

\* UserApp's callback with a profile: the listeners of the session before
\* are dropped and listenToCurrentUser(userAuth.id, ...) is subscribed.
signedIn(userAuth) ==
    [session EXCEPT !.pc = "idle", !.delivered = userAuth,
                    !.listening = userAuth.id]

\* auth.signOut() and UserApp's callback with null: the listeners are
\* dropped and setUser(null).
signedOut == SignedOut

\* The auth state becomes the account uid (a sign-in, or a session restored
\* when the app loads): the handler starts.
authStateChanged(uid) ==
    /\ session.firebaseUser = NoUser
    /\ session.pc = "idle"
    /\ session' = [session EXCEPT !.firebaseUser = uid, !.uid = uid, !.pc = "sync"]
    /\ UNCHANGED <<accounts, handshakeVars>>
    /\ AuthOnly

\* await syncAcceptedFriends(firebaseUser.uid) is called.
authSync(s) ==
    /\ session.pc = "sync"
    /\ AllIdle
    /\ FirstIdle(s)
    /\ syncAcceptedFriends(s, session.uid)

\* syncAcceptedFriends returned: getUserProfileById reads users/{uid}; the
\* profile is handed to the callback when it is in good standing, otherwise
\* the account is signed out and the callback gets null.
authProfile(s) ==
    /\ session.pc = "sync"
    /\ At(s, "syncAcceptedFriends", "done")
    /\ calls[s].self = session.uid
    /\ calls' = [calls EXCEPT ![s] = IdleCall]
    /\ session' = IF inGoodStanding(accounts[session.uid])
                  THEN signedIn(Profile(session.uid, FALSE))
                  ELSE signedOut
    /\ UNCHANGED <<store, scenario, accounts>>
    /\ AuthOnly

\* The query of syncAcceptedFriends rejects (the store cannot be reached):
\* catch, and the callback gets fallbackUser.
authSyncRejected ==
    /\ session.pc = "sync"
    /\ AllIdle
    /\ session' = signedIn(Profile(session.uid, TRUE))
    /\ UNCHANGED <<accounts, handshakeVars>>
    /\ AuthOnly

\* The read of getUserProfileById rejects: catch, and the callback gets
\* fallbackUser.
authProfileRejected(s) ==
    /\ session.pc = "sync"
    /\ At(s, "syncAcceptedFriends", "done")
    /\ calls[s].self = session.uid
    /\ calls' = [calls EXCEPT ![s] = IdleCall]
    /\ session' = signedIn(Profile(session.uid, TRUE))
    /\ UNCHANGED <<store, scenario, accounts>>
    /\ AuthOnly

\* listenToCurrentUser pushes users/{id} to UserApp's listener: setUser of
\* a profile in good standing, handleLogout otherwise.
currentUserSnapshot ==
    /\ session.listening # NoUser
    /\ session' = IF inGoodStanding(accounts[session.listening])
                  THEN [session EXCEPT !.user = Profile(session.listening, FALSE)]
                  ELSE signedOut
    /\ UNCHANGED <<accounts, handshakeVars>>
    /\ AuthOnly

\* The user logs out.
handleLogout ==
    /\ session.firebaseUser # NoUser
    /\ session.pc = "idle"
    /\ session' = signedOut
    /\ UNCHANGED <<accounts, handshakeVars>>
    /\ AuthOnly

\* update({ isBanned: true })
banUser(userId) ==
    /\ ~accounts[userId].isBanned
    /\ accounts' = [accounts EXCEPT ![userId].isBanned = TRUE]
    /\ UNCHANGED <<session, handshakeVars>>
    /\ AuthOnly

\* userRef.update({ isDeactivated: true })
deactivateAccount(userId) ==
    /\ ~accounts[userId].isDeactivated
    /\ accounts' = [accounts EXCEPT ![userId].isDeactivated = TRUE]
    /\ UNCHANGED <<session, handshakeVars>>
    /\ AuthOnly

\* a signs in and out on one device while a sends b a request, b accepts,
\* and the account of a is banned or deactivated.
AuthNext ==
    \/ authStateChanged("a")
    \/ \E s \in Procs : authSync(s)
    \/ \E s \in Procs : syncQuery(s)
    \/ \E s \in Procs : syncCommit(s)
    \/ \E s \in Procs : authProfile(s)
    \/ authSyncRejected
    \/ \E s \in Procs : authProfileRejected(s)
    \/ currentUserSnapshot
    \/ handleLogout
    \/ banUser("a")
    \/ deactivateAccount("a")
    \/ \E s \in Procs : session.pc # "sync" /\ AllIdle /\ FirstIdle(s) /\ addFriend(s, "a", "b")
    \/ \E s \in Procs : session.pc # "sync" /\ AllIdle /\ FirstIdle(s)
                            /\ acceptFriendRequest(s, "b", "a")
    \/ \E s \in Procs : addFriendReadSender(s)
    \/ \E s \in Procs : addFriendReadReceiver(s)
    \/ \E s \in Procs : addFriendReadReq1(s)
    \/ \E s \in Procs : addFriendReadReq2(s)
    \/ \E s \in Procs : addFriendSetDoc(s)
    \/ \E s \in Procs : acceptUpdateRequest(s)
    \/ \E s \in Procs : acceptUpdateUser(s)
    \/ \E s \in Procs : acceptReadSelf(s)
    \/ \E s \in Procs : acceptNotify(s)
    \/ \E s \in Procs : calls[s].op # "syncAcceptedFriends" /\ Return(s)

AuthSpec == Init /\ [][AuthNext]_vars

\* ============================================================== claims
\* A call of `op` that has returned with no step of any other call since it
\* was issued: calls[s].pre is the store it was issued in.
Clean(s, op) ==
    /\ calls[s].op = op
    /\ calls[s].pc = "done"
    /\ calls[s].mix = "none"
    /\ calls[s].pre.valid

HasRequest(r, u, t) == r[requestId(u, t)] # "absent" \/ r[requestId(t, u)] # "absent"

NumRequests(r, u, t) ==
    Cardinality({e \in {requestId(u, t), requestId(t, u)} : r[e] # "absent"})

Converged(u, t) ==
    /\ t \in friendIds[u]
    /\ u \in friendIds[t]
    /\ ~HasRequest(friendRequests, u, t)

\* C1, as stated: sendRequest(A,B), then accept(B,A), then reconcile(A), from
\* no relationship, ends with A and B in each other's friendIds and no
\* request record for the pair.
C1_HandshakeAlwaysConverges ==
    scenario.stage = "synced" => Converged(scenario.a, scenario.b)

\* C1, amended: when that sendRequest(A,B) returns success (B's privacy rule
\* let it through), then accept(B,A), then reconcile(A) ends with A and B in
\* each other's friendIds and no request record for the pair.
C1_HandshakeConverges ==
    scenario.stage = "synced" /\ scenario.sent => Converged(scenario.a, scenario.b)

C1_Witness ==
    /\ scenario.stage = "synced"
    /\ scenario.sent
    /\ privacy[scenario.b] = "friends_of_friends"
    /\ \E m \in Users \ {scenario.a, scenario.b} :
            m \in friendIds[scenario.a] \cap friendIds[scenario.b]
    /\ Converged(scenario.a, scenario.b)

\* C2: sendRequest(A,B) while a request for the pair exists, in either
\* direction and with any status, returns success and changes nothing:
\* exactly one request record exists for the pair afterwards.
C2_SecondRequestIsNoOp ==
    \A s \in Procs :
        LET c == calls[s] IN
        Clean(s, "addFriend") /\ HasRequest(c.pre.r, c.self, c.target) =>
            /\ c.result = "success"
            /\ friendRequests = c.pre.r
            /\ friendIds = c.pre.f
            /\ sentFriendRequests = c.pre.s
            /\ inbox = c.pre.n
            /\ NumRequests(friendRequests, c.self, c.target) = 1

C2_Witness ==
    \E s \in Procs :
        /\ Clean(s, "addFriend")
        /\ calls[s].pre.r[requestId(calls[s].target, calls[s].self)] = "accepted"
        /\ calls[s].result = "success"

\* C3: in every reachable state at most one friend-request record exists
\* for an unordered pair of users.
C3_OneRequestPerPair ==
    \A u \in Users, t \in Users :
        u # t => ~(/\ friendRequests[requestId(u, t)] # "absent"
                   /\ friendRequests[requestId(t, u)] # "absent")

\* C4: in every reachable state, if A is in B.friendIds but B is not in
\* A.friendIds, a request record from A to B with status accepted exists.
C4_AsymmetryOnlyWhileAccepted ==
    \A a \in Users, b \in Users :
        a # b /\ a \in friendIds[b] /\ b \notin friendIds[a] =>
            friendRequests[requestId(a, b)] = "accepted"

\* C5: sendRequest(A,B) when A and B are in each other's friendIds fails
\* with AlreadyFriends and creates no friend-request record.
C5_AlreadyFriendsRefused ==
    \A s \in Procs :
        LET c == calls[s] IN
        /\ Clean(s, "addFriend")
        /\ c.target \in c.pre.f[c.self]
        /\ c.self \in c.pre.f[c.target]
        => /\ c.result = "already_friends"
           /\ friendRequests = c.pre.r

\* The store after a sendRequest that created its record.
RequestCreated(c) ==
    /\ c.result = "success"
    /\ friendRequests = [c.pre.r EXCEPT ![requestId(c.self, c.target)] = "pending"]
    /\ friendIds = c.pre.f

RequestDenied(c) ==
    /\ c.result = "friends_of_friends"
    /\ friendRequests = c.pre.r
    /\ friendIds = c.pre.f

NoCommonFriend(c) == c.pre.f[c.self] \cap c.pre.f[c.target] = {}

C7_AcceptWithoutRequest ==
    \A s \in Procs :
        LET c == calls[s] IN
        /\ Clean(s, "acceptFriendRequest")
        /\ c.pre.r[requestId(c.target, c.self)] = "absent"
        => /\ c.logged
           /\ friendIds = c.pre.f
           /\ friendRequests = c.pre.r
           /\ inbox = c.pre.n

C7_Witness ==
    \E s \in Procs :
        LET c == calls[s] IN
        /\ Clean(s, "acceptFriendRequest")
        /\ c.pre.r[requestId(c.target, c.self)] = "absent"
        /\ c.pre.r[requestId(c.self, c.target)] = "pending"
        /\ c.logged
        /\ Deposited = MaxNotifs

\* C8: decline(B,A) removes the request record from A to B whatever its
\* status, changes nothing when the record is absent, and leaves every
\* user's friendIds unchanged.
C8_Decline ==
    \A s \in Procs :
        LET c == calls[s]
            id == requestId(c.target, c.self) IN
        Clean(s, "declineFriendRequest") =>
            /\ friendRequests = [c.pre.r EXCEPT ![id] = "absent"]
            /\ c.pre.r[id] = "absent" => friendRequests = c.pre.r
            /\ friendIds = c.pre.f
            /\ sentFriendRequests = c.pre.s
            /\ inbox = c.pre.n

C8_Witness ==
    \E s \in Procs :
        LET c == calls[s] IN
        /\ Clean(s, "declineFriendRequest")
        /\ c.pre.r[requestId(c.target, c.self)] = "accepted"
        /\ c.self \in friendIds[c.target] \/ c.target \in friendIds[c.self]

\* The store `snap` after one reconcile run of userId.
Reconciled(snap, userId) ==
    LET consumed == {t \in Users : snap.r[requestId(userId, t)] = "accepted"} IN
    [f |-> [snap.f EXCEPT ![userId] = @ \cup consumed],
     s |-> [snap.s EXCEPT ![userId] = @ \ consumed],
     r |-> [e \in Users \X Users |->
              IF e[1] = userId /\ e[2] \in consumed THEN "absent" ELSE snap.r[e]],
     p |-> snap.p,
     n |-> snap.n]

StoreIs(x) ==
    /\ friendIds = x.f
    /\ sentFriendRequests = x.s
    /\ friendRequests = x.r
    /\ privacy = x.p
    /\ inbox = x.n

\* C9: reconcile(A) consumes exactly A's outgoing requests with status
\* accepted: each recipient is in A.friendIds and out of A's sent-request
\* bookkeeping and the record is deleted, while A's pending outgoing
\* requests, the requests of other users and every other user's document
\* are unchanged.
C9_ReconcileConsumesAccepted ==
    \A s \in Procs :
        Clean(s, "syncAcceptedFriends") =>
            StoreIs(Reconciled(calls[s].pre, calls[s].self))

C9_Witness ==
    \E s \in Procs :
        LET c == calls[s] IN
        /\ Clean(s, "syncAcceptedFriends")
        /\ \E t \in Users : c.pre.r[requestId(c.self, t)] = "accepted"
        /\ \E t \in Users : c.pre.r[requestId(c.self, t)] = "pending"
        /\ \E u \in Users \ {c.self}, t \in Users : c.pre.r[requestId(u, t)] # "absent"

\* C10: reconcile is idempotent: after reconcile runs of A, back to back or
\* overlapping, with no step of another operation among them, friendIds and
\* the request records are what one run leaves.
C10_ReconcileIdempotent ==
    \A s \in Procs :
        LET c == calls[s] IN
        /\ c.op = "syncAcceptedFriends"
        /\ c.pc = "done"
        /\ c.pre.valid
        => StoreIs(Reconciled(c.pre, c.self))

C10_Witness ==
    \E s \in Procs, t \in Procs :
        /\ s # t
        /\ calls[s].op = "syncAcceptedFriends" /\ calls[t].op = "syncAcceptedFriends"
        /\ calls[s].pc = "done" /\ calls[t].pc = "done"
        /\ calls[s].self = calls[t].self
        /\ calls[s].pre.valid /\ calls[t].pre.valid
        /\ calls[s].hits # {} /\ calls[t].hits # {}

\* C11: unfriendUser(A,B) takes B out of A.friendIds and A out of
\* B.friendIds in one write, and cancelFriendRequest(A,B) takes B out of A's
\* sent list and A out of B's received list in one write: the documents
\* after the write are the documents before it with both removals made and
\* nothing else changed, and no state lists a friend on one side only.
C11_SymmetricRemoval ==
    /\ batch.op = "unfriendUser" =>
         /\ batch.target \notin userDocs[batch.self].friendIds
         /\ batch.self \notin userDocs[batch.target].friendIds
         /\ \A u \in Users :
              /\ userDocs[u].friendIds =
                   batch.pre[u].friendIds \
                     (IF u = batch.self THEN {batch.target}
                      ELSE IF u = batch.target THEN {batch.self} ELSE {})
              /\ userDocs[u].friendRequestsSent = batch.pre[u].friendRequestsSent
              /\ userDocs[u].friendRequestsReceived =
                   batch.pre[u].friendRequestsReceived
    /\ batch.op = "cancelFriendRequest" =>
         /\ batch.target \notin userDocs[batch.self].friendRequestsSent
         /\ batch.self \notin userDocs[batch.target].friendRequestsReceived
         /\ \A u \in Users :
              /\ userDocs[u].friendIds = batch.pre[u].friendIds
              /\ userDocs[u].friendRequestsSent =
                   batch.pre[u].friendRequestsSent \
                     (IF u = batch.self THEN {batch.target} ELSE {})
              /\ userDocs[u].friendRequestsReceived =
                   batch.pre[u].friendRequestsReceived \
                     (IF u = batch.target THEN {batch.self} ELSE {})
    /\ \A u \in Users, t \in Users :
         t \in userDocs[u].friendIds <=> u \in userDocs[t].friendIds

C11_Witness ==
    /\ batch.op = "unfriendUser"
    /\ batch.target \in batch.pre[batch.self].friendIds
    /\ batch.self \in batch.pre[batch.target].friendIds
    /\ batch.target \in userDocs[batch.self].friendRequestsSent
    /\ \E m \in Users \ {batch.target} : m \in userDocs[batch.self].friendIds

\* C12: while a block between two users stands, neither lists the other in
\* friendIds and no friend-request record exists for the pair: blockUser
\* leaves none behind, and no sendRequest, accept or reconcile creates one.
C12_BlockedExcludesAll ==
    \A u \in Users, t \in Users :
        u # t /\ t \in blockedUserIds[u] => NoRelationship(u, t)

\* The ids of the friends in an emitted list.
ListedIds(list) == {list[i].id : i \in 1..Len(list)}

\* C13: once listenToFriends has handled a parent push carrying the friend
\* ids S, and until it is disposed of, the live child subscriptions are
\* exactly one per id in S, all created by the handler of that push: the
\* subscriptions created for an earlier set were cancelled first.
C13_OneChildPerFriend ==
    LET l == friendsListener IN
    l.pushes > 0 /\ ~l.disposed =>
        /\ l.live = {<<f, l.pushes>> : f \in friendsSeen.friendIds}
        /\ Range(l.friendListeners) = l.live
        /\ Len(l.friendListeners) = Cardinality(friendsSeen.friendIds)

C13_Witness ==
    /\ friendsSeen.event = "parent"
    /\ friendsSeen.dropped # {}
    /\ friendsListener.live # {}
    /\ friendsListener.live \cap friendsSeen.dropped = {}
    /\ \E h \in friendsSeen.dropped : h[1] \notin friendsSeen.friendIds

\* C14: every list listenToFriends emits holds no user id twice and only
\* users whose id is in the friend ids of the most recent parent push, none
\* when that push reported the parent document missing.
C14_NoGhostEntries ==
    LET current == IF friendsSeen.parent = "set" THEN friendsSeen.friendIds ELSE {} IN
    \A k \in 1..Len(friendsSeen.out) :
        LET list == friendsSeen.out[k] IN
        /\ Cardinality(ListedIds(list)) = Len(list)
        /\ ListedIds(list) \subseteq current

\* The latest value of every child that is subscribed to, exists and has
\* pushed.
Merged ==
    {[id |-> f, v |-> friendsSeen.latest[f]] :
        f \in {g \in {h[1] : h \in friendsListener.live} : friendsSeen.latest[g] # 0}}

\* C15: each child push handled by listenToFriends makes exactly one
\* emission, which carries the whole merged collection; after a push that
\* reports the child deleted the emitted list no longer holds that child.
C15_ChildPushEmitsMerged ==
    friendsSeen.event = "child" =>
        /\ Len(friendsSeen.out) = 1
        /\ Range(friendsSeen.out[1]) = Merged
        /\ Len(friendsSeen.out[1]) = Cardinality(Merged)
        /\ friendsSeen.deleted => friendsSeen.child \notin ListedIds(friendsSeen.out[1])

C15_Witness ==
    /\ friendsSeen.event = "child"
    /\ friendsSeen.deleted
    /\ Len(friendsSeen.out) = 1
    /\ Len(friendsSeen.out[1]) = 1
    /\ friendsSeen.out[1][1].v > 1
    /\ Cardinality(friendsListener.live) = 2

\* C16: once the disposer returned by listenToFriends has been called, the
\* parent subscription and every child subscription are cancelled, and no
\* push is handled and nothing emitted any more.
C16_DisposedIsSilent ==
    friendsListener.disposed =>
        /\ ~friendsListener.mainLive
        /\ friendsListener.live = {}
        /\ friendsSeen.event = "dispose"
        /\ friendsSeen.out = <<>>

C16_Witness ==
    /\ friendsListener.disposed
    /\ Len(friendsListener.friendListeners) = 2
    /\ Len(friendsListener.friendsData) = 2
    /\ friendsSeen.parent = "set"

C18_PostReactionToggles ==
    reacted.kind = "post" /\ reacted.n = 2 =>
        LET u == reacted.userId IN
        /\ reacted.first = reacted.second /\ reacted.pre[u] # reacted.first =>
             reactions[u] = NoEmoji
        /\ reacted.first # reacted.second => reactions[u] = reacted.second
        /\ \A o \in Users \ {u} : reactions[o] = reacted.pre[o]

\* C19: reactToComment toggles the user's entry in the reaction map of the
\* target comment (the same emoji removes it, another emoji overwrites it)
\* and leaves the other comments of the post and the other users' entries
\* on the target comment as they were.
C19_CommentReactionToggles ==
    reacted.kind = "comment" /\ reacted.n >= 1 =>
        LET u == reacted.userId
            e == IF reacted.n = 2 THEN reacted.second ELSE reacted.first
            before == reacted.mid
        IN  /\ Len(comments) = Len(before)
            /\ \A k \in 1..Len(comments) :
                 IF before[k].id = reacted.target
                 THEN /\ comments[k].id = before[k].id
                      /\ comments[k].reactions[u] =
                           (IF before[k].reactions[u] = e THEN NoEmoji ELSE e)
                      /\ \A o \in Users \ {u} :
                           comments[k].reactions[o] = before[k].reactions[o]
                 ELSE comments[k] = before[k]

\* C20: after a user reacts to a message with X and then with another emoji
\* Y, the user is in the set of X and in the set of Y, and the other users
\* are in the sets they were in before.
C20_MessageReactionsAccumulate ==
    /\ reacted.kind = "message"
    /\ reacted.n = 2
    /\ reacted.first # reacted.second
    => /\ reacted.userId \in messageReactions[reacted.first]
       /\ reacted.userId \in messageReactions[reacted.second]
       /\ \A e \in Emojis :
            messageReactions[e] \ {reacted.userId} = reacted.pre[e] \ {reacted.userId}

C20_Witness ==
    /\ reacted.kind = "message"
    /\ reacted.n = 2
    /\ reacted.first # reacted.second
    /\ \A e \in Emojis : reacted.userId \notin reacted.pre[e]
    /\ \E o \in Users \ {reacted.userId} :
         o \in reacted.pre[reacted.first] /\ o \notin reacted.pre[reacted.second]
    /\ \A e \in Emojis : reacted.userId \in messageReactions[e]


\* C21: when a user reacts to a message with an emoji whose set already holds
\* the user, the user is removed from that emoji's set, and the user's
\* membership of every other emoji's set is as it was.
C21_MessageReactionTogglesOff ==
    LET u == reacted.userId
        e == IF reacted.n = 2 THEN reacted.second ELSE reacted.first
    IN  /\ reacted.kind = "message"
        /\ reacted.n >= 1
        /\ u \in reacted.mid[e]
        => /\ u \notin messageReactions[e]
           /\ \A o \in Emojis \ {e} :
                (u \in messageReactions[o]) = (u \in reacted.mid[o])


\* C22: deleteComment is a soft delete. After it the comment sequence has
\* the length, the order and the ids it had; the comment deleted has
\* isDeleted = TRUE and no text, no media reference and no reaction, and is
\* otherwise as it was; every other comment is as it was; and when no
\* comment has the id the post is as it was.
C22_SoftDelete ==
    lastOp.op.name = "deleteComment" =>
        LET before == lastOp.before.comments
            commentId == lastOp.op.commentId
        IN  /\ Len(comments) = Len(before)
            /\ \A k \in 1..Len(before) :
                 comments[k] = IF before[k].id = commentId
                               THEN [before[k] EXCEPT !.isDeleted = TRUE,
                                        !.text = NoText, !.imageUrl = NoUrl,
                                        !.audioUrl = NoUrl,
                                        !.reactions = NoReactions]
                               ELSE before[k]
            /\ (\A k \in 1..Len(before) : before[k].id # commentId) =>
                 PostDoc = lastOp.before


\* C23: no update of the comments of a post is lost. When createComment,
\* editComment, deleteComment and reactToComment of different users overlap
\* on one post and all have returned, the comments of the post are those got
\* by applying the operations that completed one after another, each once,
\* in the order in which they were committed.
C23_NoLostUpdate ==
    (\A s \in Sessions : transactions[s].pc = "idle") =>
        /\ comments = serial.comments
        /\ post.commentCount = serial.commentCount

\* C24: a transaction body may be run again. What a transaction of
\* reactToPost, reactToComment, editComment, deleteComment or voteOnPoll
\* commits is its mutation applied once to the document that the attempt
\* which committed read, that document is the one the commit replaced, and
\* nothing of an attempt that was aborted is in the document.
C24_BodyRunsOnce ==
    /\ lastOp.op.name \in {"reactToPost", "reactToComment", "editComment",
                           "deleteComment", "voteOnPoll"}
    /\ lastOp.op.revision = "transaction"
    => /\ lastOp.read = lastOp.before
       /\ PostDoc = TransactionBody(lastOp.op, lastOp.read).doc


C23_Witness ==
    /\ \A s \in Sessions : transactions[s].pc = "idle"
    /\ started = MaxOps
    /\ lastOp.attempts >= 2
    /\ lastOp.op.name = "editComment"
    /\ lastOp.outcome = "wrote"
    /\ Len(comments) = 2
    /\ \E k \in 1..Len(comments) :
         /\ comments[k].text \in NewTexts
         /\ comments[k].reactions[userOf("s2")] # NoEmoji
         /\ lastOp.read.comments[k].reactions[userOf("s2")] # NoEmoji

C24_Witness ==
    /\ lastOp.op.name \in {"reactToPost", "reactToComment", "deleteComment", "voteOnPoll"}
    /\ lastOp.op.revision = "transaction"
    /\ lastOp.attempts >= 2
    /\ lastOp.outcome = "wrote"
    /\ PostDoc # lastOp.read


\* C25: after createComment and deleteComment calls that do not overlap, on
\* a post that had no comment, commentCount is the number of comments of the
\* sequence that are not deleted.
C25_CountsLiveComments ==
    post.commentCount =
        Cardinality({k \in 1..Len(comments) : ~comments[k].isDeleted})


\* C26: createComment by a user whose commenting suspension ends in the
\* future fails: no comment is appended, commentCount is as it was and no
\* upload of media was started.
C26_SuspendedCannotComment ==
    /\ lastOp.op.name = "createComment"
    /\ isSuspended(lastOp.op.args.commentingSuspendedUntil, lastOp.op.args.now)
    => /\ lastOp.outcome # "wrote"
       /\ comments = lastOp.before.comments
       /\ post.commentCount = lastOp.before.commentCount
       /\ lastOp.uploads = 0

\* The number of contents given to createComment: a text, an image file, an
\* audio blob with a duration.
Supplied(args) ==
    Cardinality({kind \in {"text", "image", "audio"} :
        \/ kind = "text" /\ args.text # NoText
        \/ kind = "image" /\ args.imageFile
        \/ kind = "audio" /\ args.audioBlob /\ args.duration # 0})

\* C27: createComment of a user who is not suspended succeeds only when
\* exactly one content is given; with none, or with more than one, it fails
\* and the comments and commentCount are as they were.
C27_ExactlyOneContent ==
    /\ lastOp.op.name = "createComment"
    /\ lastOp.op.revision = "transaction"
    /\ ~isSuspended(lastOp.op.args.commentingSuspendedUntil, lastOp.op.args.now)
    => /\ lastOp.outcome = "wrote" => Supplied(lastOp.op.args) = 1
       /\ Supplied(lastOp.op.args) # 1 =>
            /\ lastOp.outcome = "threw"
            /\ comments = lastOp.before.comments
            /\ post.commentCount = lastOp.before.commentCount


\* C28: voteOnPoll by a user who is in the voter list of any option returns
\* the post as it is and leaves the votes and the voters of every option as
\* they were, whatever the option index; a first vote, for an option of the
\* poll, puts the voter at the end of the voters of that option and raises
\* the votes of that option, and of no other, by one.
C28_OneVotePerUser ==
    lastOp.op.name = "voteOnPoll" =>
        LET before == lastOp.before.poll
            userId == lastOp.op.userId
            optionIndex == lastOp.op.args
        IN  /\ hasVoted(before, userId) =>
                 post.poll = before /\ lastOp.outcome = "returned"
            /\ ~hasVoted(before, userId) /\ optionIndex \in 0..(Len(before) - 1) =>
                 /\ Len(post.poll) = Len(before)
                 /\ \A k \in 1..Len(before) :
                      IF k = optionIndex + 1
                      THEN /\ post.poll[k].votedBy = Append(before[k].votedBy, userId)
                           /\ post.poll[k].votes = before[k].votes + 1
                      ELSE post.poll[k] = before[k]


\* C29: markBestAnswer writes bestAnswerId only when the user is the author
\* of the post; after a call by any other user the post is as it was.
C29_OnlyAuthorMarksBestAnswer ==
    lastOp.op.name = "markBestAnswer" =>
        /\ lastOp.outcome = "wrote" => lastOp.op.userId = PostAuthor
        /\ lastOp.op.userId # PostAuthor => PostDoc = lastOp.before


\* C30: matchesTargeting is true for every profile when the campaign has no
\* targeting, and when its targeting sets no constraint: no location, no
\* gender, no age range and no interest.
C30_NoConstraintMatchesAll ==
    /\ targetingRun.applied
    /\ \/ ~targetingRun.campaign.hasTargeting
       \/ /\ targetingRun.campaign.targeting.location = Empty
          /\ targetingRun.campaign.targeting.gender = ""
          /\ targetingRun.campaign.targeting.ageRange = Empty
          /\ targetingRun.campaign.targeting.interests = <<>>
    => targetingRun.result

C30_Witness ==
    /\ targetingRun.applied
    /\ targetingRun.campaign.hasTargeting
    /\ targetingRun.campaign.targeting = Untargeted.campaign.targeting
    /\ targetingRun.user.currentCity # Empty
    /\ targetingRun.user.gender # ""
    /\ targetingRun.user.age # 0
    /\ targetingRun.user.bio # Empty
    /\ targetingRun.result


\* The age range is of the form "min-max": two parts, both numbers.
WellFormed(ageRange) ==
    /\ Len(split(ageRange)) = 2
    /\ ~partOf(ageRange, 1).nan
    /\ ~partOf(ageRange, 2).nan

\* C31: for every rule (with an age range, if any, of the form "min-max")
\* and every profile, also one that declares no city, age, gender or bio,
\* matchesTargeting is true exactly when every constraint the rule sets
\* passes: the location equals the city of the profile up to case and
\* surrounding blanks, the gender is the wildcard or that of the profile,
\* the age of the profile lies between min and max, both included, and the
\* bio contains one of the interests, whatever the case.
C31_MatchesIffAllPass ==
    LET rule == targetingRun.campaign.targeting
        user == targetingRun.user
    IN  /\ targetingRun.applied
        /\ targetingRun.campaign.hasTargeting
        /\ rule.ageRange = Empty \/ WellFormed(rule.ageRange)
        => targetingRun.result =
             /\ \/ rule.location = Empty
                \/ trim(toLowerCase(rule.location)) = trim(toLowerCase(user.currentCity))
             /\ \/ rule.gender = ""
                \/ rule.gender = "All"
                \/ rule.gender = user.gender
             /\ \/ rule.ageRange = Empty
                \/ /\ user.age # 0
                   /\ partOf(rule.ageRange, 1).n <= user.age
                   /\ user.age <= partOf(rule.ageRange, 2).n
             /\ \/ rule.interests = <<>>
                \/ hasMatchingInterest(rule.interests, user.bio)


\* C32: when the store rejects the notification that acceptFriendRequest
\* adds to the inbox of the requester, the call returns as it does after a
\* deposit (nothing is thrown to the caller) and the step changes nothing in
\* the store: the request document is as it was, accepted as this call left
\* it unless another call removed it since, and the requester is in the
\* friendIds of the accepter.
C32_NotifyFailureIsSwallowed ==
    [][\A s \in Procs :
         /\ calls[s].op = "acceptFriendRequest"
         /\ calls[s].pc = "notify"
         /\ calls'[s].pc = "done"
         /\ calls'[s].logged
         => /\ calls'[s].result = "void"
            /\ friendRequests' = friendRequests
            /\ friendIds' = friendIds
            /\ inbox' = inbox
            /\ calls[s].target \in friendIds'[calls[s].self]]_vars

C32_Witness ==
    \E s \in Procs :
        /\ calls[s].op = "acceptFriendRequest"
        /\ calls[s].pc = "done"
        /\ calls[s].logged
        /\ calls[s].result = "void"
        /\ friendRequests[requestId(calls[s].target, calls[s].self)] = "accepted"
        /\ calls[s].target \in friendIds[calls[s].self]
        /\ inbox[calls[s].target] = 0


\* C33: in the request-document protocol a step changes the friendIds of a
\* user only when it is a step of a call (addFriend, acceptFriendRequest,
\* declineFriendRequest, syncAcceptedFriends) that this user invoked.
C33_OnlyOwnFriendIds ==
    [][\A u \in Users :
         friendIds'[u] # friendIds[u] =>
            \E s \in Procs :
                /\ calls[s].self = u
                /\ calls[s].op \in {"addFriend", "acceptFriendRequest",
                                    "declineFriendRequest", "syncAcceptedFriends"}
                /\ calls'[s].pc # calls[s].pc
                /\ \A t \in Procs \ {s} : calls'[t].pc = calls[t].pc]_vars

C33_Witness ==
    \E s \in Procs :
        /\ calls[s].op = "acceptFriendRequest"
        /\ calls[s].pc = "readSelf"
        /\ calls[s].target \in friendIds[calls[s].self]
        /\ calls[s].self \notin friendIds[calls[s].target]
        /\ \E o \in Users \ {calls[s].self, calls[s].target} : friendIds[o] # {}


\* C34: the composers that read asynchronously for every parent push call
\* back in the order of the pushes: no callback of a subscription answers a
\* push older than the push the callback before it answered.
C34_CallbacksInPushOrder == snapshotRuns.inOrder


\* C35: in the request-document revision commentCount is the length of the
\* comment sequence of the post, deleted comments included, in every state
\* reached by createComment, editComment, deleteComment and reactToComment,
\* however they overlap, on a post created with commentCount 0 and no
\* comment.
C35_CountIsLength == post.commentCount = Len(comments)

C35_Witness ==
    /\ Len(comments) = 2
    /\ post.commentCount = 2
    /\ comments[1].isDeleted
    /\ lastOp.op.name = "deleteComment"
    /\ lastOp.attempts >= 2
    /\ Len(lastOp.read.comments) = 2


\* C36: however voteOnPoll calls of any users overlap on one post, every
\* user is among the voters of at most one option, once, and the votes of
\* every option have grown by the number of voters added to it.
C36_OneVoteEachCounted ==
    /\ \A u \in Users :
         Cardinality({k \in 1..Len(post.poll) : u \in Range(post.poll[k].votedBy)}) <= 1
    /\ \A k \in 1..Len(post.poll) :
         /\ Cardinality(Range(post.poll[k].votedBy)) = Len(post.poll[k].votedBy)
         /\ post.poll[k].votes =
              NewPost.poll[k].votes + Len(post.poll[k].votedBy)
                - Len(NewPost.poll[k].votedBy)

C36_Witness ==
    /\ lastOp.op.name = "voteOnPoll"
    /\ lastOp.attempts >= 2
    /\ lastOp.outcome = "returned"
    /\ hasVoted(post.poll, lastOp.op.userId)
    /\ lastOp.op.args = 1
    /\ lastOp.op.userId \in Range(post.poll[1].votedBy)
    /\ Len(post.poll[2].votedBy) >= 1


\* C37: a comment that was soft-deleted stays blank. In every state each
\* comment with isDeleted = TRUE has no text, no media reference and no
\* reaction, whatever editComment and reactToComment did after the delete.
C37_DeletedStaysBlank ==
    \A k \in 1..Len(comments) :
        comments[k].isDeleted =>
            /\ comments[k].text = NoText
            /\ comments[k].imageUrl = NoUrl
            /\ comments[k].audioUrl = NoUrl
            /\ comments[k].reactions = NoReactions


\* C38: no user is their own friend. In every state of the request-document
\* protocol no friend request has the same user as sender and recipient, and
\* no user's friendIds holds the user's own id.
C38_NobodyOwnFriend ==
    \A u \in Users :
        /\ friendRequests[requestId(u, u)] = "absent"
        /\ u \notin friendIds[u]


\* C39: while MessageScreen shows a chat, markMessagesAsRead was called at
\* most once since the chat was opened, from the first push of its messages;
\* from that call on isLoading is false; and one listener of messages is
\* subscribed.
C39_MarkedOnceThenLoaded ==
    messageScreen.mounted =>
        /\ messageScreen.marks <= 1
        /\ messageScreen.marks >= 1 => ~messageScreen.isLoading
        /\ messageScreen.listeners = 1


\* C40: an account that is banned or deactivated is never signed in. The
\* profile the auth callback got last, and the profile UserApp keeps as the
\* user, were not handed over while users/{id} of the account had isBanned
\* or isDeactivated set, also when the read of the profile failed.
C40_BarredNeverSignedIn ==
    /\ session.delivered.id # NoUser => ~session.delivered.barred
    /\ session.user.id # NoUser => ~session.user.barred

====
